---- MODULE Spec2Model ----
(***************************************************************************)
(* wg-busy: the configuration store (internal/config), the peer and server *)
(* handlers that mutate it (internal/handlers), the entity model            *)
(* (internal/models), the address allocator (internal/ipam) and the        *)
(* routing-table allocator and policy-command generator (internal/routing). *)
(*                                                                         *)
(* Representation of Go values:                                             *)
(*   - a peer ID (UUID string) is a positive integer, "" is NoID;          *)
(*   - an IPv4 address is a 4-tuple of bytes, as net.IP is;                 *)
(*   - a CIDR-list string ("a/n, b/m") is the sequence of its CIDRs,        *)
(*     each [ip, bits]; the empty string is the empty sequence;             *)
(*   - a private key is <<"priv", n>>, its public key <<"pub", n>>, "" is   *)
(*     NoKey; GenerateKeyPair returns a key never returned before;          *)
(*   - timestamps (CreatedAt, UpdatedAt) and the peer fields that are only *)
(*     validated and stored (Endpoint, DNS, ClientAllowedIPs, PresharedKey, *)
(*     PersistentKeepalive) are not represented; Name stands for them.      *)
(***************************************************************************)
EXTENDS Integers, Sequences, FiniteSets, TLC

\* ------------------------------------------------------------------------
\* Bounds of the model
\* ------------------------------------------------------------------------

\* Number of injected I/O failures (file write, rename, reload command) in
\* one behaviour.
MaxFaults == 1

\* Request goroutines: net/http serves each request on a goroutine of its
\* own, which runs one handler and ends.
Threads == {"t1", "t2"}

NoThread == "none"

\* The goroutines of the requests that only read the store or re-render
\* wg0.conf; each serves one request.
Readers == {"r1", "r2"}

\* How many times the routing commands are generated and wg0.conf rendered
\* from one AppConfig.
MaxRuns == 2

\* The most peers an address-allocation run may reach.
MaxPeers == 6

\* The most samples the collector takes when the samples are arbitrary; a run
\* that fills the history buffers takes HistorySize + MaxSamples samples.
MaxSamples == 3

\* wgstats.HistorySize
HistorySize == 60

\* The counters are int64; the model keeps two's-complement wrap-around on a
\* width of IntBits bits.
IntBits == 8

NoKey == <<>>

\* The server's private key, generated at first start.
ServerKey == <<"priv", 0>>

NoID == 0

\* Display names a form can submit (after TrimSpace): "" is rejected by
\* Peer.Validate, "n" is accepted.
Names == {"", "n"}

\* ------------------------------------------------------------------------
\* Program constants
\* ------------------------------------------------------------------------

routingTableBase == 100

DefaultListenPort == 51820

DefaultAddress == << [ip |-> <<10, 0, 0, 1>>, bits |-> 24] >>

DefaultPostUp == "iptables -A POSTROUTING -t nat -o eth0 -j MASQUERADE"

DefaultPostDown == "iptables -D POSTROUTING -t nat -o eth0 -j MASQUERADE"

\* Explicit tunnel addresses a form can submit; <<>> asks for auto-assignment
\* in CreatePeer and is rejected by Peer.Validate in UpdatePeer.
FormAllowedIPs == { <<>>, << [ip |-> <<10, 0, 0, 2>>, bits |-> 32] >> }

\* ------------------------------------------------------------------------
\* Sequence helpers
\* ------------------------------------------------------------------------

Range(s) == { s[i] : i \in 1..Len(s) }

RECURSIVE SeqFilter(_, _)
\* The subsequence of s whose elements are in the set keep.
SeqFilter(s, keep) ==
    IF s = <<>> THEN <<>>
    ELSE IF Head(s) \in keep THEN <<Head(s)>> \o SeqFilter(Tail(s), keep)
    ELSE SeqFilter(Tail(s), keep)

\* All orders in which the elements of the finite set S can be enumerated
\* (Go randomises the iteration order of a map).
Perms(S) ==
    { f \in [1..Cardinality(S) -> S] : \A x \in S : \E i \in 1..Cardinality(S) : f[i] = x }

RECURSIVE Pow2(_)
Pow2(n) == IF n = 0 THEN 1 ELSE 2 * Pow2(n - 1)

\* ------------------------------------------------------------------------
\* net: IPv4 addresses and CIDR parsing
\* ------------------------------------------------------------------------

NoIP == <<>>

PanicIP == <<"panic">>

\* Number of prefix bits that fall into byte i (1..4) of a mask of n bits.
MaskBitsOfByte(n, i) ==
    LET k == n - 8 * (i - 1) IN IF k < 0 THEN 0 ELSE IF k > 8 THEN 8 ELSE k

\* ip & mask, the network address of ip under a prefix of n bits.
MaskIP(ip, n) ==
    [i \in 1..4 |-> ip[i] - (ip[i] % Pow2(8 - MaskBitsOfByte(n, i)))]

\* net.ParseCIDR on a string holding exactly one CIDR; a comma-separated list
\* or the empty string does not parse.
ParseCIDROk(s) == Len(s) = 1

ParseCIDRIP(s) == s[1].ip

ParseCIDRNet(s) == [ip |-> MaskIP(s[1].ip, s[1].bits), bits |-> s[1].bits]

\* (*net.IPNet).Contains
Contains(ipNet, ip) ==
    /\ ip # NoIP
    /\ ip # PanicIP
    /\ MaskIP(ip, ipNet.bits) = ipNet.ip

\* ------------------------------------------------------------------------
\* ipam
\* ------------------------------------------------------------------------

\* nextIP: the address plus one.  The sum is taken as a big integer and
\* copied back into 4 bytes; for 255.255.255.255 the sum has 5 bytes and the
\* copy indexes the result slice at -1, which panics.
nextIP(ip) ==
    IF ip[4] < 255 THEN <<ip[1], ip[2], ip[3], ip[4] + 1>>
    ELSE IF ip[3] < 255 THEN <<ip[1], ip[2], ip[3] + 1, 0>>
    ELSE IF ip[2] < 255 THEN <<ip[1], ip[2] + 1, 0, 0>>
    ELSE IF ip[1] < 255 THEN <<ip[1] + 1, 0, 0, 0>>
    ELSE PanicIP

broadcastAddress(ipNet) ==
    [i \in 1..4 |-> ipNet.ip[i] + (Pow2(8 - MaskBitsOfByte(ipNet.bits, i)) - 1)]

\* A plausible slip: the peers' addresses are not marked as used.
UsedSet_ServerOnly(serverAddress, usedIPs) ==
    {ParseCIDRIP(serverAddress), ParseCIDRNet(serverAddress).ip,
     broadcastAddress(ParseCIDRNet(serverAddress))}

\* The addresses NextAvailableIP marks as used: the server's own address, the
\* network and broadcast addresses, and the address of every entry of usedIPs
\* that parses as one CIDR (an entry that is a comma-separated list parses
\* neither as a CIDR nor as an IP and is skipped).
UsedSet(serverAddress, usedIPs) ==
    {ParseCIDRIP(serverAddress), ParseCIDRNet(serverAddress).ip,
     broadcastAddress(ParseCIDRNet(serverAddress))}
    \cup { ParseCIDRIP(usedIPs[i]) : i \in { j \in 1..Len(usedIPs) : ParseCIDROk(usedIPs[j]) } }

RECURSIVE ScanFrom(_, _, _)
\* The scan loop of NextAvailableIP starting at ip.
ScanFrom(ipNet, used, ip) ==
    IF ip = PanicIP THEN [err |-> "panic", ip |-> <<>>]
    ELSE IF ~Contains(ipNet, ip) THEN [err |-> "exhausted", ip |-> <<>>]
    ELSE IF ip \notin used THEN [err |-> "", ip |-> << [ip |-> ip, bits |-> 32] >>]
    ELSE ScanFrom(ipNet, used, nextIP(ip))

\* NextAvailableIP(serverAddress, usedIPs): [err, ip] where ip is the /32
\* CIDR string of the first free address.
NextAvailableIP(serverAddress, usedIPs) ==
    IF ~ParseCIDROk(serverAddress) THEN [err |-> "invalid server address", ip |-> <<>>]
    ELSE ScanFrom(ParseCIDRNet(serverAddress),
                  UsedSet(serverAddress, usedIPs),
                  nextIP(ParseCIDRNet(serverAddress).ip))

\* ------------------------------------------------------------------------
\* models: validation and peer-list helpers
\* ------------------------------------------------------------------------

\* isValidBase64Key: generated keys are 44-character base64 strings, the
\* empty string is not.
isValidBase64Key(k) == Len(k) = 2

\* isValidCIDRList: every comma-separated part parses as a CIDR.
isValidCIDRList(s) ==
    /\ Len(s) >= 1
    /\ \A i \in 1..Len(s) :
          /\ s[i].bits \in 0..32
          /\ \A j \in 1..4 : s[i].ip[j] \in 0..255

\* nameRegexp and the 64-character limit: of the names a form submits here,
\* exactly the non-empty ones pass.
isValidName(n) == n \in Names \ {""}

\* wgtypes: the public key derived from a private key.
PublicKeyOf(k) == <<"pub", k[2]>>

\* (*Peer).Validate: the fields in error, in the order they are reported.
PeerValidate(p) ==
    (IF p.Name = "" THEN <<"name">>
     ELSE IF ~isValidName(p.Name) THEN <<"name">> ELSE <<>>)
    \o (IF p.PrivateKey = NoKey THEN <<"privateKey">>
        ELSE IF ~isValidBase64Key(p.PrivateKey) THEN <<"privateKey">> ELSE <<>>)
    \o (IF p.PublicKey = NoKey THEN <<"publicKey">> ELSE <<>>)
    \o (IF p.AllowedIPs = <<>> THEN <<"allowedIPs">>
        ELSE IF ~isValidCIDRList(p.AllowedIPs) THEN <<"allowedIPs">> ELSE <<>>)
    \o (IF p.IsExitNode /\ p.ExitNodeID # NoID THEN <<"exitNodeID">> ELSE <<>>)

\* (*ServerConfig).Validate: the fields in error.
ServerValidate(s) ==
    (IF s.PrivateKey = NoKey THEN <<"privateKey">>
     ELSE IF ~isValidBase64Key(s.PrivateKey) THEN <<"privateKey">> ELSE <<>>)
    \o (IF s.ListenPort = 0 THEN <<"listenPort">> ELSE <<>>)
    \o (IF s.Address = <<>> THEN <<"address">>
        ELSE IF ~isValidCIDRList(s.Address) THEN <<"address">> ELSE <<>>)

\* A validation that accepts a reference to a disabled exit node.
ValidateExitNodeRefs_DisabledToo(peers) ==
    LET exitNodes == { peers[i].ID : i \in { j \in 1..Len(peers) : peers[j].IsExitNode } }
        bad == { i \in 1..Len(peers) :
                    peers[i].ExitNodeID # NoID /\ peers[i].ExitNodeID \notin exitNodes }
    IN  SeqFilter([i \in 1..Len(peers) |-> i], bad)

\* ValidateExitNodeRefs: one error per peer whose reference is not the ID of
\* an enabled exit node.
ValidateExitNodeRefs(peers) ==
    LET exitNodes == { peers[i].ID : i \in { j \in 1..Len(peers) :
                                              peers[j].IsExitNode /\ peers[j].Enabled } }
        bad == { i \in 1..Len(peers) :
                    peers[i].ExitNodeID # NoID /\ peers[i].ExitNodeID \notin exitNodes }
    IN  SeqFilter([i \in 1..Len(peers) |-> i], bad)

\* CascadeClearExitNode: clears every reference to exitNodeID.
CascadeClearExitNode(peers, exitNodeID) ==
    [i \in 1..Len(peers) |->
        IF peers[i].ExitNodeID = exitNodeID
        THEN [peers[i] EXCEPT !.ExitNodeID = NoID]
        ELSE peers[i]]

\* FindPeerByID: the index of the first peer with the ID, 0 for nil.
FindPeerByID(peers, id) ==
    IF \E i \in 1..Len(peers) : peers[i].ID = id
    THEN CHOOSE i \in 1..Len(peers) :
            /\ peers[i].ID = id
            /\ \A j \in 1..(i - 1) : peers[j].ID # id
    ELSE 0

\* FirstIP: the address of the first CIDR of a list, NoIP when there is none.
FirstIP(cidr) == IF Len(cidr) = 0 THEN NoIP ELSE cidr[1].ip

\* ------------------------------------------------------------------------
\* routing: table allocation
\* ------------------------------------------------------------------------

UsedTableIDs(peers) ==
    { peers[i].RoutingTableID : i \in { j \in 1..Len(peers) : peers[j].RoutingTableID > 0 } }

RECURSIVE FirstUnusedFrom(_, _)
FirstUnusedFrom(used, id) ==
    IF id \notin used THEN id ELSE FirstUnusedFrom(used, id + 1)

\* A plausible slip: only the enabled peers' tables count as used.
AssignRoutingTableID_EnabledOnly(peers) ==
    FirstUnusedFrom({ peers[i].RoutingTableID :
                        i \in { j \in 1..Len(peers) :
                                  peers[j].RoutingTableID > 0 /\ peers[j].Enabled } },
                    routingTableBase)

\* An allocator that always goes past the largest ID in use.
AssignRoutingTableID_PastLargest(peers) ==
    LET used == UsedTableIDs(peers) \cup {routingTableBase - 1}
    IN  1 + CHOOSE m \in used : \A n \in used : n <= m

\* AssignRoutingTableID: the first ID from routingTableBase upwards that no
\* peer holds.
AssignRoutingTableID(peers) == FirstUnusedFrom(UsedTableIDs(peers), routingTableBase)

\* ------------------------------------------------------------------------
\* handlers: the mutation functions passed to Store.Write
\* Each returns [err, cfg]: the error ("" for nil) and the AppConfig as the
\* function leaves it, which Store.Write keeps whatever the error.
\* ------------------------------------------------------------------------

\* A plausible slip: the form's exitNodeID is kept when isExitNode is set.
FormExitNodeID_Kept(isExitNode, exitNodeID) == exitNodeID

\* CreatePeer and UpdatePeer: exitNodeID := "" when the form sets isExitNode.
FormExitNodeID(isExitNode, exitNodeID) == IF isExitNode THEN NoID ELSE exitNodeID

\* The models.Peer that CreatePeer builds from the form before Store.Write.
NewPeer(id, key, form) ==
    [ID             |-> id,
     Name           |-> form.name,
     PrivateKey     |-> key,
     PublicKey      |-> PublicKeyOf(key),
     AllowedIPs     |-> form.allowedIPs,
     IsExitNode     |-> form.isExitNode,
     ExitNodeID     |-> FormExitNodeID(form.isExitNode, form.exitNodeID),
     RoutingTableID |-> 0,
     Enabled        |-> form.enabled]

\* CreatePeer's mutation function.
CreatePeerFn(cfg, peer) ==
    LET usedIPs == [i \in 1..Len(cfg.Peers) |-> cfg.Peers[i].AllowedIPs]
        alloc   == IF peer.AllowedIPs = <<>>
                   THEN NextAvailableIP(cfg.Server.Address, usedIPs)
                   ELSE [err |-> "", ip |-> peer.AllowedIPs]
        p1      == [peer EXCEPT !.AllowedIPs = alloc.ip]
        p2      == IF p1.IsExitNode
                   THEN [p1 EXCEPT !.RoutingTableID = AssignRoutingTableID(cfg.Peers)]
                   ELSE p1
    IN  IF alloc.err = "panic" THEN [err |-> "panic", cfg |-> cfg]
        ELSE IF alloc.err # "" THEN [err |-> "auto-assign IP", cfg |-> cfg]
        ELSE IF PeerValidate(p2) # <<>> THEN [err |-> "validation", cfg |-> cfg]
        ELSE [err |-> "", cfg |-> [cfg EXCEPT !.Peers = Append(cfg.Peers, p2)]]

\* A plausible slip: a table ID is allocated on every update of an exit node.
UpdateRoutingTableID_Always(peers, i, isExitNode) ==
    IF isExitNode THEN AssignRoutingTableID(peers) ELSE 0

\* A plausible slip: the table ID is kept when the exit-node flag is cleared.
UpdateRoutingTableID_NoRelease(peers, i, isExitNode) ==
    IF isExitNode /\ peers[i].RoutingTableID = 0
    THEN AssignRoutingTableID(peers)
    ELSE peers[i].RoutingTableID

\* UpdatePeer, "Handle exit node transitions": the RoutingTableID of peers[i]
\* after the form's isExitNode has been stored.
UpdateRoutingTableID(peers, i, isExitNode) ==
    IF isExitNode /\ peers[i].RoutingTableID = 0 THEN AssignRoutingTableID(peers)
    ELSE IF ~isExitNode THEN 0
    ELSE peers[i].RoutingTableID

\* UpdatePeer's mutation function: the peer is modified in place before it
\* is validated.
UpdatePeerFn(cfg, id, form) ==
    LET i == FindPeerByID(cfg.Peers, id) IN
    IF i = 0 THEN [err |-> "peer not found", cfg |-> cfg]
    ELSE
      LET isExitNode  == form.isExitNode
          exitNodeID  == FormExitNodeID(form.isExitNode, form.exitNodeID)
          wasExitNode == cfg.Peers[i].IsExitNode
          peers1 == [cfg.Peers EXCEPT ![i] =
                       [@ EXCEPT !.Name       = form.name,
                                 !.AllowedIPs = form.allowedIPs,
                                 !.IsExitNode = isExitNode,
                                 !.ExitNodeID = exitNodeID,
                                 !.Enabled    = form.enabled]]
          peers2 == [peers1 EXCEPT ![i].RoutingTableID =
                       UpdateRoutingTableID(peers1, i, isExitNode)]
          peers3 == IF wasExitNode /\ ~isExitNode
                    THEN CascadeClearExitNode(peers2, id)
                    ELSE peers2
      IN  [err |-> IF PeerValidate(peers3[i]) # <<>> THEN "validation" ELSE "",
           cfg |-> [cfg EXCEPT !.Peers = peers3]]

\* A deletion without the cascade.
DeletePeerFn_NoCascade(cfg, id) ==
    LET idx == FindPeerByID(cfg.Peers, id) IN
    IF idx = 0 THEN [err |-> "peer not found", cfg |-> cfg]
    ELSE [err |-> "",
          cfg |-> [cfg EXCEPT !.Peers =
                     SubSeq(cfg.Peers, 1, idx - 1) \o SubSeq(cfg.Peers, idx + 1, Len(cfg.Peers))]]

\* DeletePeer's mutation function.
DeletePeerFn(cfg, id) ==
    LET idx == FindPeerByID(cfg.Peers, id) IN
    IF idx = 0 THEN [err |-> "peer not found", cfg |-> cfg]
    ELSE
      LET peers1 == IF cfg.Peers[idx].IsExitNode
                    THEN CascadeClearExitNode(cfg.Peers, id)
                    ELSE cfg.Peers
      IN  [err |-> "",
           cfg |-> [cfg EXCEPT !.Peers =
                      SubSeq(peers1, 1, idx - 1) \o SubSeq(peers1, idx + 1, Len(peers1))]]

\* TogglePeer's mutation function.
TogglePeerFn(cfg, id) ==
    LET i == FindPeerByID(cfg.Peers, id) IN
    IF i = 0 THEN [err |-> "peer not found", cfg |-> cfg]
    ELSE
      LET peers1 == [cfg.Peers EXCEPT ![i].Enabled = ~@]
          peers2 == IF ~peers1[i].Enabled /\ peers1[i].IsExitNode
                    THEN CascadeClearExitNode(peers1, id)
                    ELSE peers1
      IN  [err |-> "", cfg |-> [cfg EXCEPT !.Peers = peers2]]

\* RegeneratePeerKeys' mutation function; key is what GenerateKeyPair returns.
RegeneratePeerKeysFn(cfg, id, key) ==
    LET i == FindPeerByID(cfg.Peers, id) IN
    IF i = 0 THEN [err |-> "peer not found", cfg |-> cfg]
    ELSE [err |-> "",
          cfg |-> [cfg EXCEPT !.Peers[i].PrivateKey = key,
                              !.Peers[i].PublicKey  = PublicKeyOf(key)]]

\* UpdateServerConfig's mutation function: the fields are stored before
\* they are validated.
UpdateServerConfigFn(cfg, form) ==
    LET server1 == [cfg.Server EXCEPT !.ListenPort = form.listenPort,
                                      !.Address    = form.address,
                                      !.PreUp      = form.preUp,
                                      !.PostUp     = form.postUp,
                                      !.PreDown    = form.preDown,
                                      !.PostDown   = form.postDown]
    IN  [err |-> IF ServerValidate(server1) # <<>> THEN "validation" ELSE "",
         cfg |-> [cfg EXCEPT !.Server = server1]]

\* ------------------------------------------------------------------------
\* routing: policy-command generation
\* A command is a tuple of its words; the exit nodes are kept in a Go map,
\* whose iteration order is unspecified, so the route commands are generated
\* for an order `ord` of the map's keys that the caller does not control.
\* ------------------------------------------------------------------------

\* The keys of the exitNodes map: enabled exit-node peers with a table.
ExitNodeKeys(cfg) ==
    { cfg.Peers[i].ID : i \in { j \in 1..Len(cfg.Peers) :
          /\ cfg.Peers[j].IsExitNode
          /\ cfg.Peers[j].Enabled
          /\ cfg.Peers[j].RoutingTableID > 0 } }

\* exitNodes[id]: the last peer of the list with that ID wins the map slot.
ExitNodeOf(cfg, id) ==
    LET idxs == { j \in 1..Len(cfg.Peers) :
                    /\ cfg.Peers[j].ID = id
                    /\ cfg.Peers[j].IsExitNode
                    /\ cfg.Peers[j].Enabled
                    /\ cfg.Peers[j].RoutingTableID > 0 }
    IN  cfg.Peers[CHOOSE j \in idxs : \A k \in idxs : k <= j]

RECURSIVE RouteCmds(_, _, _, _)
\* One "ip route <verb> default via <exit ip> dev wg0 table <id>" per table,
\* in the order ord of the map's keys.
RouteCmds(cfg, ord, done, verb) ==
    IF ord = <<>> THEN <<>>
    ELSE LET e == ExitNodeOf(cfg, Head(ord)) IN
         IF e.RoutingTableID \in done \/ FirstIP(e.AllowedIPs) = NoIP
         THEN RouteCmds(cfg, Tail(ord), done, verb)
         ELSE << <<"ip route", verb, "default via", FirstIP(e.AllowedIPs),
                   "dev wg0 table", e.RoutingTableID>> >>
              \o RouteCmds(cfg, Tail(ord), done \cup {e.RoutingTableID}, verb)

RECURSIVE RuleCmds_DisabledToo(_, _, _)
\* A rule loop without the check of the peer's enabled flag.
RuleCmds_DisabledToo(cfg, i, verb) ==
    IF i > Len(cfg.Peers) THEN <<>>
    ELSE LET p == cfg.Peers[i] IN
         IF \/ p.ExitNodeID = NoID
            \/ p.ExitNodeID \notin ExitNodeKeys(cfg)
            \/ FirstIP(p.AllowedIPs) = NoIP
         THEN RuleCmds_DisabledToo(cfg, i + 1, verb)
         ELSE << <<"ip rule", verb, "from", FirstIP(p.AllowedIPs),
                   "table", ExitNodeOf(cfg, p.ExitNodeID).RoutingTableID>> >>
              \o RuleCmds_DisabledToo(cfg, i + 1, verb)

RECURSIVE RuleCmds(_, _, _)
\* One "ip rule <verb> from <peer ip> table <id>" per enabled peer that
\* references an exit node of the map, in peer-list order from index i.
RuleCmds(cfg, i, verb) ==
    IF i > Len(cfg.Peers) THEN <<>>
    ELSE LET p == cfg.Peers[i] IN
         IF \/ ~p.Enabled
            \/ p.ExitNodeID = NoID
            \/ p.ExitNodeID \notin ExitNodeKeys(cfg)
            \/ FirstIP(p.AllowedIPs) = NoIP
         THEN RuleCmds(cfg, i + 1, verb)
         ELSE << <<"ip rule", verb, "from", FirstIP(p.AllowedIPs),
                   "table", ExitNodeOf(cfg, p.ExitNodeID).RoutingTableID>> >>
              \o RuleCmds(cfg, i + 1, verb)

\* A generator that emits the policy rules before the routes.
GeneratePostUpCommands_RulesFirst(cfg, ord) ==
    IF ExitNodeKeys(cfg) = {} THEN <<>>
    ELSE RuleCmds(cfg, 1, "add") \o RouteCmds(cfg, ord, {}, "add")

\* GeneratePostUpCommands: routes first, then rules; nil without exit nodes.
GeneratePostUpCommands(cfg, ord) ==
    IF ExitNodeKeys(cfg) = {} THEN <<>>
    ELSE RouteCmds(cfg, ord, {}, "add") \o RuleCmds(cfg, 1, "add")

\* GeneratePostDownCommands: rules first, then routes.
GeneratePostDownCommands(cfg, ord) ==
    IF ExitNodeKeys(cfg) = {} THEN <<>>
    ELSE RuleCmds(cfg, 1, "del") \o RouteCmds(cfg, ord, {}, "del")

\* ------------------------------------------------------------------------
\* wireguard: rendering of wg0.conf
\* The text is the sequence of its lines; a line is <<key, value>>.
\* ------------------------------------------------------------------------

\* "0.0.0.0/0, ::/0" as a CIDR list (the IPv6 address has 16 bytes).
RouteEverything ==
    << [ip |-> <<0, 0, 0, 0>>, bits |-> 0], [ip |-> [i \in 1..16 |-> 0], bits |-> 0] >>

\* {{ if .X }} Key = {{ .X }} {{ end }}
OptLine(key, val, empty) == IF val = empty THEN <<>> ELSE << <<key, <<val>> >> >>

\* A section that always shows the stored tunnel address.
PeerSection_StoredAddress(p) ==
    << <<"[Peer]", <<p.Name>> >>,
       <<"PublicKey", p.PublicKey>>,
       <<"AllowedIPs", p.AllowedIPs>> >>

\* The [Peer] section of one enabled peer.
PeerSection(p) ==
    << <<"[Peer]", <<p.Name>> >>,
       <<"PublicKey", p.PublicKey>>,
       <<"AllowedIPs", IF p.IsExitNode THEN RouteEverything ELSE p.AllowedIPs>> >>

RECURSIVE PeerSections(_, _)
PeerSections(peers, i) ==
    IF i > Len(peers) THEN <<>>
    ELSE (IF peers[i].Enabled THEN PeerSection(peers[i]) ELSE <<>>)
         \o PeerSections(peers, i + 1)

\* A template with the generated commands after the user's down hooks.
RenderServerConfig_GeneratedLast(cfg, postUpCmds, postDownCmds) ==
    << <<"[Interface]", <<>> >>,
       <<"PrivateKey", cfg.Server.PrivateKey>>,
       <<"ListenPort", <<cfg.Server.ListenPort>> >>,
       <<"Address", cfg.Server.Address>> >>
    \o OptLine("PreUp", cfg.Server.PreUp, "")
    \o OptLine("PostUp", cfg.Server.PostUp, "")
    \o OptLine("PostDown", cfg.Server.PostDown, "")
    \o OptLine("PreDown", cfg.Server.PreDown, "")
    \o [i \in 1..Len(postUpCmds) |-> <<"PostUp", postUpCmds[i]>>]
    \o [i \in 1..Len(postDownCmds) |-> <<"PostDown", postDownCmds[i]>>]
    \o PeerSections(cfg.Peers, 1)

\* RenderServerConfig with serverConfTmpl.
RenderServerConfig(cfg, postUpCmds, postDownCmds) ==
    << <<"[Interface]", <<>> >>,
       <<"PrivateKey", cfg.Server.PrivateKey>>,
       <<"ListenPort", <<cfg.Server.ListenPort>> >>,
       <<"Address", cfg.Server.Address>> >>
    \o OptLine("PreUp", cfg.Server.PreUp, "")
    \o OptLine("PostUp", cfg.Server.PostUp, "")
    \o [i \in 1..Len(postUpCmds) |-> <<"PostUp", postUpCmds[i]>>]
    \o [i \in 1..Len(postDownCmds) |-> <<"PostDown", postDownCmds[i]>>]
    \o OptLine("PostDown", cfg.Server.PostDown, "")
    \o OptLine("PreDown", cfg.Server.PreDown, "")
    \o PeerSections(cfg.Peers, 1)

\* yaml.Marshal of the AppConfig: the document's server object and peer list.
MarshalYAML(cfg) == [server |-> cfg.Server, peers |-> cfg.Peers]


\* ------------------------------------------------------------------------
\* State
\* ------------------------------------------------------------------------

VARIABLES
    config,     \* Store.config, the in-memory AppConfig
    writer,     \* the goroutine holding Store.mu for writing, or NoThread
    yamlFile,   \* content of configPath
    yamlTmp,    \* content of configPath + ".tmp"
    wgFile,     \* content of wgConfigPath
    wgTmp,      \* content of wgConfigPath + ".tmp"
    pc,         \* per goroutine: its position in Store.Write
    res,        \* per goroutine: what its Store.Write is about to return
    log,        \* the Store.Write in progress: its handler, then its effects in order
    snap,       \* AppConfig and files as they were when the lock was taken
    nextId,     \* the next fresh peer ID (uuid.New)
    nextKey,    \* the next fresh key (wgtypes.GeneratePrivateKey)
    faults,     \* I/O failures injected
    readers,    \* the goroutines holding Store.mu for reading
    autoIP,     \* IDs of the peers whose AllowedIPs NextAvailableIP chose
    cmdRuns,    \* results of generating the commands and rendering, in order
    call,       \* the last call of a function exercised on its own, with its result
    collector,  \* the fields of the wgstats Collector
    loop        \* Collector.pollLoop: its position, the ticker, stopCh, Collector.mu

storeVars == <<config, writer>>

fileVars == <<yamlFile, yamlTmp, wgFile, wgTmp>>

ctlVars == <<pc, res, log, snap, nextId, nextKey, faults>>

\* What Store.Write never touches.
unitVars == <<call, collector, loop>>

auxVars == <<readers, cmdRuns, unitVars>>

vars == <<config, writer, yamlFile, yamlTmp, wgFile, wgTmp,
          pc, res, log, snap, nextId, nextKey, faults, readers, autoIP, cmdRuns,
          call, collector, loop>>

NoFile == [absent |-> TRUE]

Partial == [partial |-> TRUE]

NoSnap == [none |-> TRUE]

\* No function has been called on its own.
NoCall == [op |-> "none"]

\* The stats collector has not been created.
NoCollector == [created |-> FALSE]

\* No collector was started (main passes nil for stats, or Start was not called).
NoLoop == [pc |-> "idle"]

DefaultServer ==
    [PrivateKey |-> ServerKey,
     ListenPort |-> DefaultListenPort,
     Address    |-> DefaultAddress,
     PreUp      |-> "",
     PostUp     |-> DefaultPostUp,
     PreDown    |-> "",
     PostDown   |-> DefaultPostDown]

\* Load on a missing config file, after main has generated the server key.
FreshConfig == [Server |-> DefaultServer, Peers |-> <<>>]

\* Load of the file persisted by two CreatePeer requests on a fresh install:
\* an enabled exit node, and a peer routed through it (both auto-addressed).
LoadedConfig ==
    [Server |-> DefaultServer,
     Peers  |-> << [ID |-> 1, Name |-> "n",
                    PrivateKey |-> <<"priv", 1>>, PublicKey |-> <<"pub", 1>>,
                    AllowedIPs |-> << [ip |-> <<10, 0, 0, 2>>, bits |-> 32] >>,
                    IsExitNode |-> TRUE, ExitNodeID |-> NoID,
                    RoutingTableID |-> 100, Enabled |-> TRUE],
                   [ID |-> 2, Name |-> "n",
                    PrivateKey |-> <<"priv", 2>>, PublicKey |-> <<"pub", 2>>,
                    AllowedIPs |-> << [ip |-> <<10, 0, 0, 3>>, bits |-> 32] >>,
                    IsExitNode |-> FALSE, ExitNodeID |-> 1,
                    RoutingTableID |-> 0, Enabled |-> TRUE] >>]

\* The process starts on a fresh install or on a persisted state file; main
\* renders wg0.conf once before serving.
Init ==
    /\ config \in {FreshConfig, LoadedConfig}
    /\ writer = NoThread
    /\ yamlFile = [doc |-> MarshalYAML(config)]
    /\ yamlTmp = NoFile
    /\ \E ordUp \in Perms(ExitNodeKeys(config)), ordDown \in Perms(ExitNodeKeys(config)) :
          wgFile = [text |-> RenderServerConfig(config,
                                 GeneratePostUpCommands(config, ordUp),
                                 GeneratePostDownCommands(config, ordDown))]
    /\ wgTmp = NoFile
    /\ pc = [t \in Threads \cup Readers |-> "start"]
    /\ res = [t \in Threads \cup Readers |-> "none"]
    /\ log = <<>>
    /\ snap = NoSnap
    /\ nextId = Len(config.Peers) + 1
    /\ nextKey = Len(config.Peers) + 1
    /\ faults = 0
    /\ readers = {}
    /\ autoIP = {}
    /\ cmdRuns = <<>>
    /\ call = NoCall
    /\ collector = NoCollector
    /\ loop = NoLoop

\* ------------------------------------------------------------------------
\* Inputs of the requests
\* ------------------------------------------------------------------------

\* IDs a request path or form can name: every ID issued so far (live or
\* deleted) and one that was never issued.
UnknownID == -1

IssuedIDs == 1..(nextId - 1)

PathIDs == IssuedIDs \cup {UnknownID}

PeerForms ==
    [name : Names, allowedIPs : FormAllowedIPs, isExitNode : BOOLEAN,
     exitNodeID : {NoID} \cup IssuedIDs, enabled : BOOLEAN]

ServerForms ==
    [listenPort : {0, DefaultListenPort}, address : {DefaultAddress},
     preUp : {""}, postUp : {DefaultPostUp}, preDown : {""}, postDown : {DefaultPostDown}]

\* ------------------------------------------------------------------------
\* Store.Write, step by step
\* ------------------------------------------------------------------------

\* A plausible slip: the write lock is granted while readers hold the mutex.
CanLock_IgnoreReaders == writer = NoThread

\* sync.RWMutex: Lock is granted when nobody holds the mutex.
CanLock == writer = NoThread /\ readers = {}

\* sync.RWMutex: RLock is granted when no writer holds the mutex.
CanRLock == writer = NoThread

\* s.mu.Lock()
Lock(t) ==
    /\ pc[t] = "start"
    /\ CanLock
    /\ writer' = t
    /\ pc' = [pc EXCEPT ![t] = "fn"]
    /\ log' = <<>>
    /\ snap' = [cfg |-> config, yaml |-> yamlFile, wg |-> wgFile,
                yamlTmp |-> yamlTmp, wgTmp |-> wgTmp]
    /\ UNCHANGED <<config, fileVars, res, nextId, nextKey, faults, autoIP, auxVars>>

\* A plausible slip: the pipeline runs whatever fn returned.
AfterFn_IgnoreErr(err) == "saveTmp"

\* if err := fn(&s.config); err != nil { return err }
AfterFn(err) == IF err = "" THEN "saveTmp" ELSE "ret"

\* The common part of the fn step: r is what the mutation function of
\* handler op returned.
RunFn(t, r, op) ==
    /\ config' = r.cfg
    /\ pc' = [pc EXCEPT ![t] = AfterFn(r.err)]
    /\ res' = [res EXCEPT ![t] = IF r.err = "" THEN "none" ELSE r.err]
    /\ log' = Append(log, IF r.err = "" THEN op ELSE "fnErr")
    /\ UNCHANGED <<writer, fileVars, snap, faults, auxVars>>

\* GenerateKeyPair: a key that no earlier call returned.
GenerateKeyPair == <<"priv", nextKey>>

CreatePeer(t) ==
    /\ pc[t] = "fn"
    /\ \E form \in PeerForms :
          LET r == CreatePeerFn(config, NewPeer(nextId, GenerateKeyPair, form)) IN
          /\ RunFn(t, r, "CreatePeer")
          /\ nextId' = IF r.err = "" THEN nextId + 1 ELSE nextId
          /\ nextKey' = IF r.err = "" THEN nextKey + 1 ELSE nextKey
          /\ autoIP' = IF r.err = "" /\ form.allowedIPs = <<>>
                        THEN autoIP \cup {nextId} ELSE autoIP

UpdatePeer(t) ==
    /\ pc[t] = "fn"
    /\ \E id \in PathIDs, form \in PeerForms : RunFn(t, UpdatePeerFn(config, id, form), "UpdatePeer")
    /\ UNCHANGED <<nextId, nextKey, autoIP>>

DeletePeer(t) ==
    /\ pc[t] = "fn"
    /\ \E id \in PathIDs : RunFn(t, DeletePeerFn(config, id), "DeletePeer")
    /\ UNCHANGED <<nextId, nextKey, autoIP>>

TogglePeer(t) ==
    /\ pc[t] = "fn"
    /\ \E id \in PathIDs : RunFn(t, TogglePeerFn(config, id), "TogglePeer")
    /\ UNCHANGED <<nextId, nextKey, autoIP>>

RegeneratePeerKeys(t) ==
    /\ pc[t] = "fn"
    /\ \E id \in PathIDs :
          LET r == RegeneratePeerKeysFn(config, id, GenerateKeyPair) IN
          /\ RunFn(t, r, "RegeneratePeerKeys")
          /\ nextKey' = IF r.err = "" THEN nextKey + 1 ELSE nextKey
    /\ UNCHANGED <<nextId, autoIP>>

UpdateServerConfig(t) ==
    /\ pc[t] = "fn"
    /\ \E form \in ServerForms : RunFn(t, UpdateServerConfigFn(config, form), "UpdateServerConfig")
    /\ UNCHANGED <<nextId, nextKey, autoIP>>

\* A plausible slip: the error of a step is recorded and the pipeline goes on.
AfterIOError_GoOn(stage) ==
    IF stage \in {"saveTmp", "saveRename"} THEN "renderTmp" ELSE "reload"

\* if err := s.saveYAML(); err != nil { return ... }, and the same for
\* s.renderWGConfig(): where Write goes when the step at stage fails.
AfterIOError(stage) == "ret"

\* An I/O step of goroutine t fails: Write returns the wrapped error.
Fail(t, errName) ==
    /\ faults < MaxFaults
    /\ faults' = faults + 1
    /\ pc' = [pc EXCEPT ![t] = AfterIOError(pc[t])]
    /\ res' = [res EXCEPT ![t] = errName]

\* saveYAML: yaml.Marshal, MkdirAll, os.WriteFile(tmpPath)
SaveYAMLWriteTmp(t) ==
    /\ pc[t] = "saveTmp"
    /\ yamlTmp' = [doc |-> MarshalYAML(config)]
    /\ pc' = [pc EXCEPT ![t] = "saveRename"]
    /\ UNCHANGED <<storeVars, yamlFile, wgFile, wgTmp, res, log, snap, nextId, nextKey, faults, autoIP, auxVars>>

SaveYAMLWriteTmpFails(t) ==
    /\ pc[t] = "saveTmp"
    /\ Fail(t, "saving config")
    /\ yamlTmp' \in {yamlTmp, Partial}
    /\ UNCHANGED <<storeVars, yamlFile, wgFile, wgTmp, log, snap, nextId, nextKey, autoIP, auxVars>>

\* saveYAML: os.Rename(tmpPath, s.configPath)
SaveYAMLRename(t) ==
    /\ pc[t] = "saveRename"
    /\ yamlFile' = yamlTmp
    /\ yamlTmp' = NoFile
    /\ log' = Append(log, "saveYAML")
    /\ pc' = [pc EXCEPT ![t] = "renderTmp"]
    /\ UNCHANGED <<storeVars, wgFile, wgTmp, res, snap, nextId, nextKey, faults, autoIP, auxVars>>

SaveYAMLRenameFails(t) ==
    /\ pc[t] = "saveRename"
    /\ Fail(t, "saving config")
    /\ UNCHANGED <<storeVars, fileVars, log, snap, nextId, nextKey, autoIP, auxVars>>

\* renderWGConfig: generate the commands, render, MkdirAll, os.WriteFile(tmpPath)
RenderWriteTmp(t) ==
    /\ pc[t] = "renderTmp"
    /\ \E ordUp \in Perms(ExitNodeKeys(config)), ordDown \in Perms(ExitNodeKeys(config)) :
          wgTmp' = [text |-> RenderServerConfig(config,
                                 GeneratePostUpCommands(config, ordUp),
                                 GeneratePostDownCommands(config, ordDown))]
    /\ pc' = [pc EXCEPT ![t] = "renderRename"]
    /\ UNCHANGED <<storeVars, yamlFile, yamlTmp, wgFile, res, log, snap, nextId, nextKey, faults, autoIP, auxVars>>

RenderWriteTmpFails(t) ==
    /\ pc[t] = "renderTmp"
    /\ Fail(t, "rendering wg config")
    /\ wgTmp' \in {wgTmp, Partial}
    /\ UNCHANGED <<storeVars, yamlFile, yamlTmp, wgFile, log, snap, nextId, nextKey, autoIP, auxVars>>

\* renderWGConfig: os.Rename(tmpPath, s.wgConfigPath)
RenderRename(t) ==
    /\ pc[t] = "renderRename"
    /\ wgFile' = wgTmp
    /\ wgTmp' = NoFile
    /\ log' = Append(log, "renderWGConfig")
    /\ pc' = [pc EXCEPT ![t] = "reload"]
    /\ UNCHANGED <<storeVars, yamlFile, yamlTmp, res, snap, nextId, nextKey, faults, autoIP, auxVars>>

RenderRenameFails(t) ==
    /\ pc[t] = "renderRename"
    /\ Fail(t, "rendering wg config")
    /\ UNCHANGED <<storeVars, fileVars, log, snap, nextId, nextKey, autoIP, auxVars>>

\* A plausible slip: a failed reload is returned as an error of the write.
AfterReload_Propagate(ok) == IF ok THEN "ok" ELSE "reloading wg server"

\* if err := wireguard.ReloadWGConfig(); err != nil { log.Printf(...) }
\* return nil
AfterReload(ok) == "ok"

ReloadWGConfig(t) ==
    /\ pc[t] = "reload"
    /\ log' = Append(log, "reload")
    /\ res' = [res EXCEPT ![t] = AfterReload(TRUE)]
    /\ pc' = [pc EXCEPT ![t] = "ret"]
    /\ UNCHANGED <<storeVars, fileVars, snap, nextId, nextKey, faults, autoIP, auxVars>>

ReloadWGConfigFails(t) ==
    /\ pc[t] = "reload"
    /\ faults < MaxFaults
    /\ faults' = faults + 1
    /\ log' = Append(log, "reloadFailed")
    /\ res' = [res EXCEPT ![t] = AfterReload(FALSE)]
    /\ pc' = [pc EXCEPT ![t] = "ret"]
    /\ UNCHANGED <<storeVars, fileVars, snap, nextId, nextKey, autoIP, auxVars>>

\* defer s.mu.Unlock(), and Write returns res[t] to the handler.
Unlock(t) ==
    /\ pc[t] = "ret"
    /\ writer = t
    /\ writer' = NoThread
    /\ pc' = [pc EXCEPT ![t] = "done"]
    /\ res' = [res EXCEPT ![t] = "none"]
    /\ log' = <<>>
    /\ snap' = NoSnap
    /\ UNCHANGED <<config, fileVars, nextId, nextKey, faults, autoIP, auxVars>>

Next ==
    \/ \E t \in Threads : Lock(t)
    \/ \E t \in Threads : CreatePeer(t)
    \/ \E t \in Threads : UpdatePeer(t)
    \/ \E t \in Threads : DeletePeer(t)
    \/ \E t \in Threads : TogglePeer(t)
    \/ \E t \in Threads : RegeneratePeerKeys(t)
    \/ \E t \in Threads : UpdateServerConfig(t)
    \/ \E t \in Threads : SaveYAMLWriteTmp(t)
    \/ \E t \in Threads : SaveYAMLWriteTmpFails(t)
    \/ \E t \in Threads : SaveYAMLRename(t)
    \/ \E t \in Threads : SaveYAMLRenameFails(t)
    \/ \E t \in Threads : RenderWriteTmp(t)
    \/ \E t \in Threads : RenderWriteTmpFails(t)
    \/ \E t \in Threads : RenderRename(t)
    \/ \E t \in Threads : RenderRenameFails(t)
    \/ \E t \in Threads : ReloadWGConfig(t)
    \/ \E t \in Threads : ReloadWGConfigFails(t)
    \/ \E t \in Threads : Unlock(t)

Spec == Init /\ [][Next]_vars

\* The wg0.conf texts renderWGConfig can produce for cfg (one per order in which
\* the exit-node map is ranged over).
Renders(cfg) ==
    { RenderServerConfig(cfg, GeneratePostUpCommands(cfg, ordUp),
                              GeneratePostDownCommands(cfg, ordDown)) :
        ordUp \in Perms(ExitNodeKeys(cfg)), ordDown \in Perms(ExitNodeKeys(cfg)) }

\* ------------------------------------------------------------------------
\* Store.Read, step by step, and the handlers that call it
\* ------------------------------------------------------------------------

\* Store.Read: s.mu.RLock(); the callback runs next.
RLock(r) ==
    /\ pc[r] = "start"
    /\ CanRLock
    /\ readers' = readers \cup {r}
    /\ pc' = [pc EXCEPT ![r] = "cb"]
    /\ UNCHANGED <<config, writer, fileVars, res, log, snap, nextId, nextKey,
                   faults, autoIP, cmdRuns, unitVars>>

\* fn(&s.config) for a callback that copies what it needs out of the
\* AppConfig (GetPeerForm, the export handlers, GetServerConfig).
ReadCallback(r) ==
    /\ pc[r] = "cb"
    /\ pc' = [pc EXCEPT ![r] = "cbRet"]
    /\ UNCHANGED <<storeVars, fileVars, res, log, snap, nextId, nextKey,
                   faults, autoIP, auxVars>>

\* fn(&s.config) for the callback of buildPeersListData, cfg = c: it keeps
\* the pointer to Store.config.
AliasCallback(r) ==
    /\ pc[r] = "cb"
    /\ pc' = [pc EXCEPT ![r] = "aliasRet"]
    /\ UNCHANGED <<storeVars, fileVars, res, log, snap, nextId, nextKey,
                   faults, autoIP, auxVars>>

\* defer s.mu.RUnlock() of Store.Read and Store.RenderWGConfig;
\* buildPeersListData goes on to range over cfg.Peers.
RUnlock(r) ==
    /\ pc[r] \in {"cbRet", "aliasRet", "rwRet"}
    /\ readers' = readers \ {r}
    /\ pc' = [pc EXCEPT ![r] = IF pc[r] = "aliasRet" THEN "range" ELSE "done"]
    /\ UNCHANGED <<config, writer, fileVars, res, log, snap, nextId, nextKey,
                   faults, autoIP, cmdRuns, unitVars>>

\* buildPeersListData: for _, p := range cfg.Peers, after Store.Read returned.
\* Ranging while a mutation function runs is a data race: the handler gets
\* the peer list or a torn one.
RangePeers(r) ==
    /\ pc[r] = "range"
    /\ pc' = [pc EXCEPT ![r] = "done"]
    /\ \E seen \in (IF writer # NoThread /\ pc[writer] = "fn"
                     THEN {"peers", "torn"} ELSE {"peers"}) :
          res' = [res EXCEPT ![r] = seen]
    /\ UNCHANGED <<storeVars, fileVars, log, snap, nextId, nextKey,
                   faults, autoIP, auxVars>>

\* ------------------------------------------------------------------------
\* Store.RenderWGConfig, step by step
\* Under the read lock several calls can run at once, so os.WriteFile is
\* taken apart: it opens tmpPath truncating it, then writes through the
\* open file, which a concurrent os.Rename may have moved to wgConfigPath.
\* ------------------------------------------------------------------------

\* s.mu.RLock()
RenderWGConfigRLock(r) ==
    /\ pc[r] = "start"
    /\ CanRLock
    /\ readers' = readers \cup {r}
    /\ pc' = [pc EXCEPT ![r] = "rwOpen"]
    /\ UNCHANGED <<config, writer, fileVars, res, log, snap, nextId, nextKey,
                   faults, autoIP, cmdRuns, unitVars>>

\* renderWGConfig: os.WriteFile opens tmpPath with O_CREATE|O_TRUNC.
RenderOpenTmp(r) ==
    /\ pc[r] = "rwOpen"
    /\ wgTmp' = Partial
    /\ pc' = [pc EXCEPT ![r] = "rwWrite"]
    /\ UNCHANGED <<storeVars, yamlFile, yamlTmp, wgFile, res, log, snap,
                   nextId, nextKey, faults, autoIP, auxVars>>

\* renderWGConfig: os.WriteFile writes the rendered text through the open
\* file and closes it.
RenderWriteOpened(r) ==
    /\ pc[r] \in {"rwWrite", "rwWriteMoved"}
    /\ \E text \in Renders(config) :
          IF pc[r] = "rwWrite"
          THEN wgTmp' = [text |-> text] /\ wgFile' = wgFile
          ELSE wgFile' = [text |-> text] /\ wgTmp' = wgTmp
    /\ pc' = [pc EXCEPT ![r] = "rwRename"]
    /\ UNCHANGED <<storeVars, yamlFile, yamlTmp, res, log, snap,
                   nextId, nextKey, faults, autoIP, auxVars>>

\* renderWGConfig: os.Rename(tmpPath, s.wgConfigPath); it fails when another
\* call has already renamed tmpPath away.
RenderRenameTmp(r) ==
    /\ pc[r] = "rwRename"
    /\ IF wgTmp # NoFile
       THEN /\ wgFile' = wgTmp
            /\ wgTmp' = NoFile
            /\ res' = [res EXCEPT ![r] = "ok"]
            /\ pc' = [q \in DOMAIN pc |->
                        IF q = r THEN "rwRet"
                        ELSE IF pc[q] = "rwWrite" THEN "rwWriteMoved"
                        ELSE pc[q]]
       ELSE /\ UNCHANGED <<wgFile, wgTmp>>
            /\ res' = [res EXCEPT ![r] = "renaming wg config"]
            /\ pc' = [pc EXCEPT ![r] = "rwRet"]
    /\ UNCHANGED <<storeVars, yamlFile, yamlTmp, log, snap,
                   nextId, nextKey, faults, autoIP, auxVars>>

\* The process is killed: no goroutine takes another step, the files stay.
Crash ==
    /\ \E t \in DOMAIN pc : pc[t] # "crashed"
    /\ pc' = [t \in DOMAIN pc |-> "crashed"]
    /\ writer' = NoThread
    /\ readers' = {}
    /\ UNCHANGED <<config, fileVars, res, log, snap, nextId, nextKey,
                   faults, autoIP, cmdRuns, unitVars>>

\* The store under concurrent requests: TogglePeer and DeletePeer as the
\* mutating requests, the reading handlers, RenderWGConfig, and a crash.
NextRW ==
    \/ \E t \in Threads : Lock(t)
    \/ \E t \in Threads : DeletePeer(t)
    \/ \E t \in Threads : TogglePeer(t)
    \/ \E t \in Threads : SaveYAMLWriteTmp(t)
    \/ \E t \in Threads : SaveYAMLWriteTmpFails(t)
    \/ \E t \in Threads : SaveYAMLRename(t)
    \/ \E t \in Threads : SaveYAMLRenameFails(t)
    \/ \E t \in Threads : RenderWriteTmp(t)
    \/ \E t \in Threads : RenderWriteTmpFails(t)
    \/ \E t \in Threads : RenderRename(t)
    \/ \E t \in Threads : RenderRenameFails(t)
    \/ \E t \in Threads : ReloadWGConfig(t)
    \/ \E t \in Threads : ReloadWGConfigFails(t)
    \/ \E t \in Threads : Unlock(t)
    \/ \E r \in Readers : RLock(r)
    \/ \E r \in Readers : ReadCallback(r)
    \/ \E r \in Readers : AliasCallback(r)
    \/ \E r \in Readers : RUnlock(r)
    \/ \E r \in Readers : RangePeers(r)
    \/ \E r \in Readers : RenderWGConfigRLock(r)
    \/ \E r \in Readers : RenderOpenTmp(r)
    \/ \E r \in Readers : RenderWriteOpened(r)
    \/ \E r \in Readers : RenderRenameTmp(r)
    \/ Crash

SpecRW == Init /\ [][NextRW]_vars

\* ------------------------------------------------------------------------
\* Command generation and rendering on arbitrary peer sets
\* Load accepts any state file, so the peer sets are not only those the
\* handlers produce: two exit nodes may share a table, a peer may lack an
\* address or reference a missing, disabled or unflagged exit node.
\* ------------------------------------------------------------------------

\* The tunnel address used for the peer with this ID.
AddressOf(id) == << [ip |-> <<10, 0, 0, id + 1>>, bits |-> 32] >>

RoutingPeer(id, enabled, isExitNode, table, exitNodeID, allowedIPs) ==
    [ID |-> id, Name |-> "n",
     PrivateKey |-> <<"priv", id>>, PublicKey |-> <<"pub", id>>,
     AllowedIPs |-> allowedIPs,
     IsExitNode |-> isExitNode, ExitNodeID |-> exitNodeID,
     RoutingTableID |-> table, Enabled |-> enabled]

\* Peers 1 and 2: any mix of the enabled flag, the exit-node flag and a table.
ExitCandidates(id, addresses) ==
    { RoutingPeer(id, en, ex, tb, NoID, a) :
        en \in BOOLEAN, ex \in BOOLEAN,
        tb \in {0, routingTableBase, routingTableBase + 1}, a \in addresses }

\* Peers 3 and 4: enabled or not, routed through nothing, peer 1, peer 2 or a
\* peer that does not exist.
ClientCandidates(id, addresses) ==
    { RoutingPeer(id, en, FALSE, 0, ref, a) :
        en \in BOOLEAN, ref \in {NoID, 1, 2, UnknownID}, a \in addresses }

RoutingConfigs ==
    { [Server |-> DefaultServer, Peers |-> <<a, b, c, d>>] :
        a \in ExitCandidates(1, {AddressOf(1), <<>>}),
        b \in ExitCandidates(2, {AddressOf(2)}),
        c \in ClientCandidates(3, {AddressOf(3), <<>>}),
        d \in ClientCandidates(4, {AddressOf(4)}) }

InitRouting ==
    /\ config \in RoutingConfigs
    /\ writer = NoThread
    /\ yamlFile = [doc |-> MarshalYAML(config)]
    /\ yamlTmp = NoFile
    /\ wgFile = NoFile
    /\ wgTmp = NoFile
    /\ pc = [t \in Threads \cup Readers |-> "done"]
    /\ res = [t \in Threads \cup Readers |-> "none"]
    /\ log = <<>>
    /\ snap = NoSnap
    /\ nextId = Len(config.Peers) + 1
    /\ nextKey = Len(config.Peers) + 1
    /\ faults = 0
    /\ readers = {}
    /\ autoIP = {}
    /\ cmdRuns = <<>>
    /\ call = NoCall
    /\ collector = NoCollector
    /\ loop = NoLoop

\* renderWGConfig up to the rendered content: GeneratePostUpCommands,
\* GeneratePostDownCommands (each ranging over its own exitNodes map) and
\* RenderServerConfig.
GenerateAndRender ==
    /\ Len(cmdRuns) < MaxRuns
    /\ \E ordUp \in Perms(ExitNodeKeys(config)), ordDown \in Perms(ExitNodeKeys(config)) :
          LET up   == GeneratePostUpCommands(config, ordUp)
              down == GeneratePostDownCommands(config, ordDown)
          IN  cmdRuns' = Append(cmdRuns,
                  [up |-> up, down |-> down,
                   text |-> RenderServerConfig(config, up, down)])
    /\ UNCHANGED <<config, writer, fileVars, pc, res, log, snap, nextId, nextKey,
                   faults, readers, autoIP, unitVars>>

NextRouting == GenerateAndRender

SpecRouting == InitRouting /\ [][NextRouting]_vars

\* ------------------------------------------------------------------------
\* Rendering with user hooks
\* The server's four hook fields are free text; each is empty or not.
\* ------------------------------------------------------------------------

HookServers ==
    { [DefaultServer EXCEPT !.PreUp = a, !.PostUp = b, !.PreDown = c, !.PostDown = d] :
        a \in {"", "echo pre-up"}, b \in {"", DefaultPostUp},
        c \in {"", "echo pre-down"}, d \in {"", DefaultPostDown} }

RenderConfigs ==
    { [Server |-> sv, Peers |-> <<a, b, c>>] :
        sv \in HookServers,
        a \in ExitCandidates(1, {AddressOf(1)}),
        b \in ExitCandidates(2, {AddressOf(2)}),
        c \in ClientCandidates(3, {AddressOf(3)}) }

InitRender ==
    /\ config \in RenderConfigs
    /\ writer = NoThread
    /\ yamlFile = [doc |-> MarshalYAML(config)]
    /\ yamlTmp = NoFile
    /\ wgFile = NoFile
    /\ wgTmp = NoFile
    /\ pc = [t \in Threads \cup Readers |-> "done"]
    /\ res = [t \in Threads \cup Readers |-> "none"]
    /\ log = <<>>
    /\ snap = NoSnap
    /\ nextId = Len(config.Peers) + 1
    /\ nextKey = Len(config.Peers) + 1
    /\ faults = 0
    /\ readers = {}
    /\ autoIP = {}
    /\ cmdRuns = <<>>
    /\ call = NoCall
    /\ collector = NoCollector
    /\ loop = NoLoop

SpecRender == InitRender /\ [][NextRouting]_vars

\* ------------------------------------------------------------------------
\* Table allocation on arbitrary peer lists
\* A loaded peer list may hold any tables, also below routingTableBase and
\* with gaps. A peer gains a table when it is flagged as exit node and gives
\* it up when the flag is cleared or the peer is deleted.
\* ------------------------------------------------------------------------

TableChoices == {0, 7, routingTableBase, routingTableBase + 1, routingTableBase + 2}

AllocPeer(id, table) == RoutingPeer(id, TRUE, table > 0, table, NoID, AddressOf(id))

AllocConfigs ==
    { [Server |-> DefaultServer,
       Peers  |-> <<AllocPeer(1, a), AllocPeer(2, b), AllocPeer(3, c)>>] :
        a \in TableChoices, b \in TableChoices, c \in TableChoices }

\* Everything but config and call, at rest.
StoreIdle ==
    /\ writer = NoThread
    /\ yamlFile = [doc |-> MarshalYAML(config)]
    /\ yamlTmp = NoFile
    /\ wgFile = NoFile
    /\ wgTmp = NoFile
    /\ pc = [t \in Threads \cup Readers |-> "done"]
    /\ res = [t \in Threads \cup Readers |-> "none"]
    /\ log = <<>>
    /\ snap = NoSnap
    /\ nextId = Len(config.Peers) + 1
    /\ nextKey = Len(config.Peers) + 1
    /\ faults = 0
    /\ readers = {}
    /\ autoIP = {}
    /\ cmdRuns = <<>>
    /\ collector = NoCollector
    /\ loop = NoLoop

InitAlloc ==
    /\ config \in AllocConfigs
    /\ call = NoCall
    /\ StoreIdle

\* The table released by the call before this one, 0 if that was no release.
LastReleased == IF call.op = "release" THEN call.released ELSE 0

\* UpdatePeer flags peer i as exit node:
\* p.RoutingTableID = routing.AssignRoutingTableID(cfg.Peers)
AssignTable(i) ==
    /\ ~config.Peers[i].IsExitNode
    /\ config.Peers[i].RoutingTableID = 0
    /\ LET peers1 == [config.Peers EXCEPT ![i].IsExitNode = TRUE]
           id     == AssignRoutingTableID(peers1)
       IN  /\ config' = [config EXCEPT !.Peers = [peers1 EXCEPT ![i].RoutingTableID = id]]
           /\ call' = [op |-> "AssignRoutingTableID", peers |-> peers1,
                       result |-> id, released |-> LastReleased]

\* UpdatePeer clears the flag of peer i: p.RoutingTableID = 0
UnflagExitNode(i) ==
    /\ config.Peers[i].RoutingTableID > 0
    /\ config' = [config EXCEPT !.Peers[i].IsExitNode = FALSE,
                                !.Peers[i].RoutingTableID = 0]
    /\ call' = [op |-> "release", released |-> config.Peers[i].RoutingTableID]

\* DeletePeer removes peer i from the list.
RemovePeer(i) ==
    /\ config.Peers[i].RoutingTableID > 0
    /\ config' = [config EXCEPT !.Peers =
                    SubSeq(config.Peers, 1, i - 1)
                    \o SubSeq(config.Peers, i + 1, Len(config.Peers))]
    /\ call' = [op |-> "release", released |-> config.Peers[i].RoutingTableID]

\* What a call of a function on its own leaves alone.
storeRest == <<writer, fileVars, ctlVars, readers, autoIP, cmdRuns, collector, loop>>

NextAlloc ==
    \/ \E i \in 1..Len(config.Peers) : AssignTable(i) /\ UNCHANGED storeRest
    \/ \E i \in 1..Len(config.Peers) : UnflagExitNode(i) /\ UNCHANGED storeRest
    \/ \E i \in 1..Len(config.Peers) : RemovePeer(i) /\ UNCHANGED storeRest

SpecAlloc == InitAlloc /\ [][NextAlloc]_vars

\* ------------------------------------------------------------------------
\* Address allocation on small subnets
\* CreatePeer passes every peer's AllowedIPs to NextAvailableIP as it is
\* stored: one CIDR or a comma-separated list. The subnets are small enough
\* to fill up, and some end at 255.255.255.255.
\* ------------------------------------------------------------------------

Host32(a, b, c, d) == [ip |-> <<a, b, c, d>>, bits |-> 32]

\* What existing peers may hold: a single address or a list of two.
LowEntries ==
    { << Host32(10, 0, 0, 2) >>, << Host32(10, 0, 0, 3) >>,
      << Host32(10, 0, 0, 2), Host32(10, 0, 0, 3) >> }

TopEntries ==
    { << Host32(255, 255, 255, 250) >>, << Host32(255, 255, 255, 251) >>,
      << Host32(255, 255, 255, 250), Host32(255, 255, 255, 251) >> }

IPAMServers ==
    { [ip |-> <<10, 0, 0, 1>>, bits |-> 24], [ip |-> <<10, 0, 0, 1>>, bits |-> 29],
      [ip |-> <<10, 0, 0, 1>>, bits |-> 30], [ip |-> <<10, 0, 0, 0>>, bits |-> 31],
      [ip |-> <<10, 0, 0, 1>>, bits |-> 32],
      [ip |-> <<255, 255, 255, 249>>, bits |-> 29],
      [ip |-> <<255, 255, 255, 254>>, bits |-> 31],
      [ip |-> <<255, 255, 255, 255>>, bits |-> 32] }

EntriesFor(server) == IF server.ip[1] = 10 THEN LowEntries ELSE TopEntries

\* Up to two existing peers.
IPAMConfigs ==
    { [Server |-> [DefaultServer EXCEPT !.Address = <<sv>>],
       Peers  |-> [i \in 1..n |-> RoutingPeer(i, TRUE, FALSE, 0, NoID, es[i])]] :
        sv \in IPAMServers, n \in 0..2, es \in [1..2 -> LowEntries \cup TopEntries] }

InitIPAM ==
    /\ config \in { c \in IPAMConfigs :
                      \A i \in 1..Len(c.Peers) :
                          c.Peers[i].AllowedIPs \in EntriesFor(c.Server.Address[1]) }
    /\ call = NoCall
    /\ StoreIdle

\* CreatePeer with an empty address field: the peers' AllowedIPs are passed
\* as usedIPs, and the peer is appended with the address returned.
AutoAssign ==
    /\ Len(config.Peers) < MaxPeers
    /\ LET usedIPs == [i \in 1..Len(config.Peers) |-> config.Peers[i].AllowedIPs]
           r       == NextAvailableIP(config.Server.Address, usedIPs)
       IN  /\ call' = [op |-> "NextAvailableIP",
                       serverAddress |-> config.Server.Address,
                       usedIPs |-> usedIPs, result |-> r]
           /\ config' = IF r.err = ""
                        THEN [config EXCEPT !.Peers =
                                Append(@, RoutingPeer(Len(config.Peers) + 1, TRUE, FALSE,
                                                      0, NoID, r.ip))]
                        ELSE config
    /\ UNCHANGED storeRest

NextIPAM == AutoAssign

SpecIPAM == InitIPAM /\ [][NextIPAM]_vars

\* ------------------------------------------------------------------------
\* ValidateExitNodeRefs on its own: any list of up to three peers, each
\* enabled or not, flagged as exit node or not, and referring to nothing, to
\* one of the three IDs (itself included) or to an ID no peer has.
\* ------------------------------------------------------------------------

RefPeers(id) ==
    { RoutingPeer(id, en, ex, 0, ref, AddressOf(id)) :
        en \in BOOLEAN, ex \in BOOLEAN, ref \in {NoID, 1, 2, 3, UnknownID} }

RefConfigs ==
    { [Server |-> DefaultServer, Peers |-> ps] :
        ps \in {<<>>}
               \cup { <<a>> : a \in RefPeers(1) }
               \cup { <<a, b>> : a \in RefPeers(1), b \in RefPeers(2) }
               \cup { <<a, b, c>> : a \in RefPeers(1), b \in RefPeers(2), c \in RefPeers(3) } }

InitRefs ==
    /\ config \in RefConfigs
    /\ call = NoCall
    /\ StoreIdle

\* errs := models.ValidateExitNodeRefs(cfg.Peers); an error is represented
\* by the position of the peer it names.
ValidateRefs ==
    /\ call = NoCall
    /\ call' = [op |-> "ValidateExitNodeRefs", peers |-> config.Peers,
                errs |-> ValidateExitNodeRefs(config.Peers)]
    /\ UNCHANGED <<config, storeRest>>

NextRefs == ValidateRefs

SpecRefs == InitRefs /\ [][NextRefs]_vars

\* ------------------------------------------------------------------------
\* wgstats: the Collector
\* A dump is what one `wg show wg0 dump` reports: for each peer of the
\* interface, keyed by public key, its cumulative rx and tx counters.
\* ------------------------------------------------------------------------

IntMax == Pow2(IntBits - 1) - 1

IntMin == 0 - Pow2(IntBits - 1)

\* The value an int64 holds after an addition or subtraction with exact
\* result x.
Wrap(x) == ((x - IntMin) % Pow2(IntBits)) + IntMin

RECURSIVE SumOver(_, _)
\* The exact sum of f over the keys in S.
SumOver(f, S) ==
    IF S = {} THEN 0
    ELSE LET k == CHOOSE k \in S : TRUE IN f[k] + SumOver(f, S \ {k})

StatKeys == { <<"pub", 1>>, <<"pub", 2>> }

EmptyMap == [k \in {} |-> 0]

\* NewCollector()
NewCollector ==
    [isUp        |-> FALSE,
     iface       |-> [TotalRx |-> 0, TotalTx |-> 0, CurrentRxPS |-> 0, CurrentTxPS |-> 0],
     peers       |-> EmptyMap,
     history     |-> <<>>,
     peerHistory |-> EmptyMap,
     prevRx      |-> 0,
     prevTx      |-> 0,
     prevPeerRx  |-> EmptyMap,
     prevPeerTx  |-> EmptyMap,
     prevTime    |-> 0]

\* A buffer that keeps every point.
Trim_KeepAll(h) == h

\* if len(h) > HistorySize { h = h[len(h)-HistorySize:] }
Trim(h) ==
    IF Len(h) > HistorySize THEN SubSeq(h, Len(h) - HistorySize + 1, Len(h)) ELSE h

\* A guard that only asks for a previous counter.
CounterAdvanced_Unchecked(cur, prev) == TRUE

\* rx >= prevRx (and likewise tx, totalRx, totalTx)
CounterAdvanced(cur, prev) == cur >= prev

\* float64(cur-prev) / dt, the subtraction being an int64 subtraction.
RateOf(cur, prev, dt) == Wrap(cur - prev) \div dt

\* A cleanup that leaves the history of a vanished peer in place.
PurgeHistory_Keep(m, gone) == m

\* delete(m, pubKey) for every key in gone.
Purge(m, gone) == [k \in DOMAIN m \ gone |-> m[k]]

PurgeHistory(m, gone) == Purge(m, gone)

\* A cleanup that leaves the previous counters of a vanished peer in place.
PurgeCounters_Keep(m, gone) == m

\* delete(c.prevPeerRx, pubKey) and delete(c.prevPeerTx, pubKey)
PurgeCounters(m, gone) == Purge(m, gone)

\* A merge that leaves the entries m already has as they are.
Merge_NewKeysOnly(m, new) ==
    [k \in DOMAIN m \cup DOMAIN new |-> IF k \in DOMAIN m THEN m[k] ELSE new[k]]

\* m with m[k] = new[k] for every k of new.
Merge(m, new) ==
    [k \in DOMAIN m \cup DOMAIN new |-> IF k \in DOMAIN new THEN new[k] ELSE m[k]]

\* A failure branch that also drops what was recorded.
PollFailed_Reset(c) == [NewCollector EXCEPT !.prevTime = c.prevTime]

\* poll, err != nil: c.isUp = false; return
PollFailed(c) == [c EXCEPT !.isUp = FALSE]

\* poll, err == nil, with the parsed peer lines in dump and time.Now() = now.
PollOK(c, dump, now) ==
    LET seen     == DOMAIN dump
        timed    == c.prevTime # 0
        dt       == now - c.prevTime
        hasPrev(k) == k \in DOMAIN c.prevPeerRx /\ k \in DOMAIN c.prevPeerTx
        peerOK(k)  == /\ timed
                      /\ dt > 0
                      /\ hasPrev(k)
                      /\ CounterAdvanced(dump[k].rx, c.prevPeerRx[k])
                      /\ CounterAdvanced(dump[k].tx, c.prevPeerTx[k])
        peerRxPS(k) == IF peerOK(k) THEN RateOf(dump[k].rx, c.prevPeerRx[k], dt) ELSE 0
        peerTxPS(k) == IF peerOK(k) THEN RateOf(dump[k].tx, c.prevPeerTx[k], dt) ELSE 0
        stats    == [k \in seen |->
                       [PublicKey |-> k,
                        TransferRx |-> dump[k].rx, TransferTx |-> dump[k].tx,
                        CurrentRxPS |-> peerRxPS(k), CurrentTxPS |-> peerTxPS(k)]]
        points   == [k \in seen |->
                       Trim(Append(IF k \in DOMAIN c.peerHistory THEN c.peerHistory[k] ELSE <<>>,
                                   [Time |-> now, RxPS |-> peerRxPS(k), TxPS |-> peerTxPS(k)]))]
        peers1   == Merge(c.peers, stats)
        gone     == { k \in DOMAIN peers1 : k \notin seen }
        totalRx  == Wrap(SumOver([k \in seen |-> dump[k].rx], seen))
        totalTx  == Wrap(SumOver([k \in seen |-> dump[k].tx], seen))
        aggOK    == /\ timed
                    /\ dt > 0
                    /\ CounterAdvanced(totalRx, c.prevRx)
                    /\ CounterAdvanced(totalTx, c.prevTx)
        rxPS     == IF aggOK THEN RateOf(totalRx, c.prevRx, dt) ELSE 0
        txPS     == IF aggOK THEN RateOf(totalTx, c.prevTx, dt) ELSE 0
    IN  [isUp        |-> TRUE,
         iface       |-> [TotalRx |-> totalRx, TotalTx |-> totalTx,
                          CurrentRxPS |-> rxPS, CurrentTxPS |-> txPS],
         peers       |-> Purge(peers1, gone),
         history     |-> Trim(Append(c.history, [Time |-> now, RxPS |-> rxPS, TxPS |-> txPS])),
         peerHistory |-> PurgeHistory(Merge(c.peerHistory, points), gone),
         prevRx      |-> totalRx,
         prevTx      |-> totalTx,
         prevPeerRx  |-> PurgeCounters(Merge(c.prevPeerRx, [k \in seen |-> dump[k].rx]), gone),
         prevPeerTx  |-> PurgeCounters(Merge(c.prevPeerTx, [k \in seen |-> dump[k].tx]), gone),
         prevTime    |-> now]

\* The counters a dump may report for the first key, and for the second.
PeerLines1 == [rx : {0, 1, 64}, tx : {0, 1}]

PeerLines2 == [rx : {0, 64}, tx : {0}]

\* Every dump: each key absent or present with one of its lines.
Dumps ==
    { d \in UNION { [S -> PeerLines1 \cup PeerLines2] : S \in SUBSET StatKeys } :
        /\ <<"pub", 1>> \in DOMAIN d => d[<<"pub", 1>>] \in PeerLines1
        /\ <<"pub", 2>> \in DOMAIN d => d[<<"pub", 2>>] \in PeerLines2 }

\* Some exact sum of a dump's counters does not fit the integer width.
Overflows(dump) ==
    \/ SumOver([k \in DOMAIN dump |-> dump[k].rx], DOMAIN dump) > IntMax
    \/ SumOver([k \in DOMAIN dump |-> dump[k].tx], DOMAIN dump) > IntMax

\* Everything but collector and call, at rest.
StoreUnused ==
    /\ config = FreshConfig
    /\ writer = NoThread
    /\ yamlFile = [doc |-> MarshalYAML(config)]
    /\ yamlTmp = NoFile
    /\ wgFile = NoFile
    /\ wgTmp = NoFile
    /\ pc = [t \in Threads \cup Readers |-> "done"]
    /\ res = [t \in Threads \cup Readers |-> "none"]
    /\ log = <<>>
    /\ snap = NoSnap
    /\ nextId = 1
    /\ nextKey = 1
    /\ faults = 0
    /\ readers = {}
    /\ autoIP = {}
    /\ cmdRuns = <<>>

storeAll == <<config, writer, fileVars, ctlVars, readers, autoIP, cmdRuns>>

statRest == <<storeAll, loop>>

\* The record of the last poll: its outcome, the collector before it, the
\* dump it read, how many polls ran, how many failed, whether a counter sum
\* has overflowed so far, the keys seen in any dump so far, and the keys of
\* this dump that were seen before but absent from the sample before it.
Polled(ok, dump) ==
    [op |-> "poll", ok |-> ok, before |-> collector, dump |-> dump,
     n |-> call.n + 1,
     fails |-> call.fails + (IF ok THEN 0 ELSE 1),
     wrapped |-> call.wrapped \/ (ok /\ Overflows(dump)),
     ever |-> call.ever \cup DOMAIN dump,
     returned |-> { k \in DOMAIN dump : k \in call.ever /\ k \notin DOMAIN collector.peers },
     feed |-> call.feed]

InitCollector ==
    /\ collector = NewCollector
    /\ loop = NoLoop
    /\ call = [op |-> "start", n |-> 0, fails |-> 0, wrapped |-> FALSE,
               ever |-> {}, returned |-> {}, feed |-> {}]
    /\ StoreUnused

\* poll: the wg command failed.
PollFails ==
    /\ call.n < MaxSamples
    /\ collector' = PollFailed(collector)
    /\ call' = Polled(FALSE, EmptyMap)
    /\ UNCHANGED statRest

\* poll: the wg command printed some dump; the clock has advanced or not.
PollAny ==
    /\ call.n < MaxSamples
    /\ \E dump \in Dumps, dt \in {0, 1} :
          /\ collector.prevTime = 0 => dt = 1
          /\ collector' = PollOK(collector, dump, collector.prevTime + dt)
          /\ call' = Polled(TRUE, dump)
    /\ UNCHANGED statRest

NextCollector == PollFails \/ PollAny

SpecCollector == InitCollector /\ [][NextCollector]_vars

\* A long run on a steady interface: the same peers in every dump, the first
\* one's rx counter growing with the clock, and at most MaxFaults failed
\* samples.
InitHistory ==
    /\ collector = NewCollector
    /\ loop = NoLoop
    /\ \E feed \in SUBSET StatKeys :
          call = [op |-> "start", n |-> 0, fails |-> 0, wrapped |-> FALSE,
                  ever |-> {}, returned |-> {}, feed |-> feed]
    /\ StoreUnused

SteadyDump(feed, now) ==
    [k \in feed |-> IF k = <<"pub", 1>> THEN [rx |-> now, tx |-> 0] ELSE [rx |-> 1, tx |-> 1]]

PollSteady ==
    /\ call.n < HistorySize + MaxSamples
    /\ collector' = PollOK(collector, SteadyDump(call.feed, call.n + 1), call.n + 1)
    /\ call' = Polled(TRUE, SteadyDump(call.feed, call.n + 1))
    /\ UNCHANGED statRest

PollSteadyFails ==
    /\ call.n < HistorySize + MaxSamples
    /\ call.fails < MaxFaults
    /\ collector' = PollFailed(collector)
    /\ call' = Polled(FALSE, EmptyMap)
    /\ UNCHANGED statRest

NextHistory == PollSteady \/ PollSteadyFails

SpecHistory == InitHistory /\ [][NextHistory]_vars

\* ------------------------------------------------------------------------
\* wgstats: Start, pollLoop and Stop
\* pollLoop is one goroutine: an initial poll, then a select between the
\* ticker's channel (buffer of one tick) and stopCh.  A poll runs the wg
\* command, reads the clock, takes Collector.mu and updates the collector;
\* the deferred Unlock releases the mutex.  At most MaxSamples dumps are
\* read; after that the command can only fail, as on an interface that went
\* down.
\* ------------------------------------------------------------------------

NoOut == [ok |-> FALSE, dump |-> EmptyMap]

\* The dumps the command prints to a running loop.
LoopDumps ==
    { d \in Dumps : \A k \in DOMAIN d : d[k].rx \in {0, 1} /\ d[k].tx = 0 }

\* The trace kept next to the loop: n dumps read so far; at Stop, the
\* collector as it was (atStop) and whether a tick was pending
\* (pendingAtStop); origin says where the current sample stands relative to
\* Stop ("inflight": it was running when Stop was called, "pending": it
\* answers a tick that was pending then, "late": it answers a later tick);
\* updated is the origin of the last sample that wrote to the collector
\* after Stop.
InitLoop ==
    /\ collector = NewCollector
    /\ loop = [pc |-> "idle", stopCh |-> "open", tick |-> FALSE,
               mu |-> "free", rd |-> {}, out |-> NoOut]
    /\ call = [op |-> "pollLoop", n |-> 0, atStop |-> NoCollector,
               pendingAtStop |-> FALSE, origin |-> "none", updated |-> "none"]
    /\ StoreUnused

\* Start: go c.pollLoop(); the loop begins with c.poll().
Start ==
    /\ loop.pc = "idle"
    /\ loop' = [loop EXCEPT !.pc = "exec"]
    /\ UNCHANGED <<storeAll, collector, call>>

\* poll: exec.Command("wg", "show", "wg0", "dump").Output() returns.
PollExec ==
    /\ loop.pc = "exec"
    /\ \/ loop' = [loop EXCEPT !.pc = "lock", !.out = NoOut]
       \/ /\ call.n < MaxSamples
          /\ \E dump \in LoopDumps :
                loop' = [loop EXCEPT !.pc = "lock", !.out = [ok |-> TRUE, dump |-> dump]]
    /\ UNCHANGED <<storeAll, collector, call>>

\* poll: c.mu.Lock() is granted and the body runs.
PollLock ==
    /\ loop.pc = "lock"
    /\ loop.mu = "free"
    /\ loop.rd = {}
    /\ loop' = [loop EXCEPT !.pc = "locked", !.mu = "poll"]
    /\ collector' = IF loop.out.ok
                    THEN PollOK(collector, loop.out.dump, collector.prevTime + 1)
                    ELSE PollFailed(collector)
    /\ call' = [call EXCEPT !.n = @ + (IF loop.out.ok THEN 1 ELSE 0),
                            !.updated = IF loop.stopCh = "closed" THEN call.origin ELSE @]
    /\ UNCHANGED storeAll

\* An Unlock written at the end of poll instead of deferred: the early
\* return of the error path keeps the mutex.
MuAfterPoll_NotDeferred(ok) == IF ok THEN "free" ELSE "poll"

\* defer c.mu.Unlock(): the mutex is released however poll returns.
MuAfterPoll(ok) == "free"

\* poll returns: the deferred c.mu.Unlock(); pollLoop is back at its select.
PollUnlock ==
    /\ loop.pc = "locked"
    /\ loop' = [loop EXCEPT !.pc = "select", !.mu = MuAfterPoll(loop.out.ok), !.out = NoOut]
    /\ call' = [call EXCEPT !.origin = "none"]
    /\ UNCHANGED <<storeAll, collector>>

\* The ticker fires; its channel holds one tick, further ones are dropped.
Tick ==
    /\ loop.pc \notin {"idle", "done"}
    /\ ~loop.tick
    /\ loop' = [loop EXCEPT !.tick = TRUE]
    /\ UNCHANGED <<storeAll, collector, call>>

\* select: case <-ticker.C: c.poll()
SelectTick ==
    /\ loop.pc = "select"
    /\ loop.tick
    /\ loop' = [loop EXCEPT !.pc = "exec", !.tick = FALSE]
    /\ call' = [call EXCEPT
                  !.origin = IF loop.stopCh = "closed"
                             THEN (IF call.pendingAtStop THEN "pending" ELSE "late")
                             ELSE "none",
                  !.pendingAtStop = FALSE]
    /\ UNCHANGED <<storeAll, collector>>

\* select: case <-c.stopCh: return
SelectStop ==
    /\ loop.pc = "select"
    /\ loop.stopCh = "closed"
    /\ loop' = [loop EXCEPT !.pc = "done"]
    /\ UNCHANGED <<storeAll, collector, call>>

\* Stop: close(c.stopCh), from another goroutine, on a started collector.
Stop ==
    /\ loop.pc # "idle"
    /\ loop.stopCh = "open"
    /\ loop' = [loop EXCEPT !.stopCh = "closed"]
    /\ call' = [call EXCEPT
                  !.atStop = collector,
                  !.pendingAtStop = loop.tick,
                  !.origin = IF loop.pc \in {"exec", "lock"} THEN "inflight" ELSE @]
    /\ UNCHANGED <<storeAll, collector>>

NextLoop ==
    \/ Start
    \/ PollExec
    \/ PollLock
    \/ PollUnlock
    \/ Tick
    \/ SelectTick
    \/ SelectStop
    \/ Stop

\* The goroutine keeps running, the wg command returns, the mutex is
\* granted, and a select with stopCh ready does not pick the ticker for ever
\* (Go picks among the ready cases at random).
FairLoop ==
    /\ WF_vars(Start)
    /\ WF_vars(PollExec)
    /\ WF_vars(PollLock)
    /\ WF_vars(PollUnlock)
    /\ WF_vars(SelectTick \/ SelectStop)
    /\ SF_vars(SelectStop)

SpecLoop == InitLoop /\ [][NextLoop]_vars /\ FairLoop

\* ------------------------------------------------------------------------
\* Requests and the polling loop side by side: the two locks
\* A goroutine of Threads serves TogglePeer: Store.Write, then (on success)
\* an optional Store.Read and the collector's GetPeerStats and
\* GetPeerHistory.  A goroutine of Readers serves ListPeers: Store.Read in
\* buildPeersListData, the range over the peers, and the collector's
\* GetAllPeerStats and GetPeerHistory (the range takes no lock and is taken
\* before the two calls here).  The polling loop runs beside them on an
\* interface that is down: its MaxSamples dumps have been read and the wg
\* command fails from now on (what poll writes plays no part in the locking).
\* ------------------------------------------------------------------------

Handlers == Threads \cup Readers

\* The requests of a run: one TogglePeer and one ListPeers; the other
\* goroutines have been served already.
Requests == {"t1", "r1"}

InitLocks ==
    /\ config = LoadedConfig
    /\ writer = NoThread
    /\ yamlFile = [doc |-> MarshalYAML(config)]
    /\ yamlTmp = NoFile
    /\ \E ordUp \in Perms(ExitNodeKeys(config)), ordDown \in Perms(ExitNodeKeys(config)) :
          wgFile = [text |-> RenderServerConfig(config,
                                 GeneratePostUpCommands(config, ordUp),
                                 GeneratePostDownCommands(config, ordDown))]
    /\ wgTmp = NoFile
    /\ pc = [g \in Handlers |-> IF g \in Requests THEN "start" ELSE "served"]
    /\ res = [g \in Handlers |-> "none"]
    /\ log = <<>>
    /\ snap = NoSnap
    /\ nextId = Len(config.Peers) + 1
    /\ nextKey = Len(config.Peers) + 1
    /\ faults = 0
    /\ readers = {}
    /\ autoIP = {}
    /\ cmdRuns = <<>>
    /\ collector = NewCollector
    /\ loop = [pc |-> "idle", stopCh |-> "open", tick |-> FALSE,
               mu |-> "free", rd |-> {}, out |-> NoOut]
    /\ call = [op |-> "pollLoop", n |-> MaxSamples, atStop |-> NoCollector,
               pendingAtStop |-> FALSE, origin |-> "none", updated |-> "none"]

\* What a step of a handler outside Store.Write leaves alone.
handlerRest == <<config, writer, fileVars, res, log, snap, nextId, nextKey,
                 faults, autoIP, cmdRuns, call, collector>>

\* TogglePeer: Write returned an error: http.Error; return.
WriteError(t) ==
    /\ pc[t] = "done"
    /\ pc' = [pc EXCEPT ![t] = "served"]
    /\ UNCHANGED <<handlerRest, readers, loop>>

\* TogglePeer: if peer.ExitNodeID != "" { h.store.Read(...) }: s.mu.RLock()
FollowUpRLock(t) ==
    /\ pc[t] = "done"
    /\ CanRLock
    /\ readers' = readers \cup {t}
    /\ pc' = [pc EXCEPT ![t] = "nameCb"]
    /\ UNCHANGED <<handlerRest, loop>>

\* The callback looks the exit node's name up; defer s.mu.RUnlock().
FollowUpRUnlock(t) ==
    /\ pc[t] = "nameCb"
    /\ readers' = readers \ {t}
    /\ pc' = [pc EXCEPT ![t] = "stats"]
    /\ UNCHANGED <<handlerRest, loop>>

\* The handler comes to "if h.stats != nil" holding no lock.
ToStats(g) ==
    /\ pc[g] = "done"
    /\ pc' = [pc EXCEPT ![g] = "stats"]
    /\ UNCHANGED <<handlerRest, readers, loop>>

\* sync.RWMutex: c.mu.RLock() is granted when no writer holds the mutex and
\* none is waiting for it.
StatsCanRLock == loop.mu = "free" /\ loop.pc # "lock"

\* GetPeerStats / GetAllPeerStats, then GetPeerHistory: c.mu.RLock()
StatsRLock(g) ==
    /\ pc[g] \in {"stats", "history"}
    /\ StatsCanRLock
    /\ loop' = [loop EXCEPT !.rd = @ \cup {g}]
    /\ pc' = [pc EXCEPT ![g] = IF pc[g] = "stats" THEN "statsHeld" ELSE "historyHeld"]
    /\ UNCHANGED <<handlerRest, readers>>

\* defer c.mu.RUnlock(); without stats for the peer the handler does not ask
\* for its history.
StatsRUnlock(g) ==
    /\ pc[g] \in {"statsHeld", "historyHeld"}
    /\ loop' = [loop EXCEPT !.rd = @ \ {g}]
    /\ \E next \in (IF pc[g] = "statsHeld" THEN {"history", "served"} ELSE {"served"}) :
          pc' = [pc EXCEPT ![g] = next]
    /\ UNCHANGED <<handlerRest, readers>>

\* The steps of Store.Write between Lock and Unlock.
WriteStep(t) ==
    \/ TogglePeer(t)
    \/ SaveYAMLWriteTmp(t)
    \/ SaveYAMLWriteTmpFails(t)
    \/ SaveYAMLRename(t)
    \/ SaveYAMLRenameFails(t)
    \/ RenderWriteTmp(t)
    \/ RenderWriteTmpFails(t)
    \/ RenderRename(t)
    \/ RenderRenameFails(t)
    \/ ReloadWGConfig(t)
    \/ ReloadWGConfigFails(t)

NextLocks ==
    \/ \E t \in Threads : Lock(t)
    \/ \E t \in Threads : WriteStep(t)
    \/ \E t \in Threads : Unlock(t)
    \/ \E t \in Threads : WriteError(t)
    \/ \E t \in Threads : FollowUpRLock(t)
    \/ \E t \in Threads : FollowUpRUnlock(t)
    \/ \E r \in Readers : RLock(r)
    \/ \E r \in Readers : AliasCallback(r)
    \/ \E r \in Readers : RUnlock(r)
    \/ \E r \in Readers : RangePeers(r)
    \/ \E g \in Handlers : ToStats(g)
    \/ \E g \in Handlers : StatsRLock(g)
    \/ \E g \in Handlers : StatsRUnlock(g)
    \/ Start
    \/ PollExec
    \/ PollLock
    \/ PollUnlock
    \/ Tick
    \/ SelectTick

\* A step of handler g other than taking Collector.mu.
HandlerStep(g) ==
    \/ Lock(g) \/ WriteStep(g) \/ Unlock(g)
    \/ WriteError(g) \/ FollowUpRLock(g) \/ FollowUpRUnlock(g)
    \/ RLock(g) \/ AliasCallback(g) \/ RUnlock(g) \/ RangePeers(g)
    \/ ToStats(g) \/ StatsRUnlock(g)

\* A step of the polling goroutine.
LoopStep == Start \/ PollExec \/ PollLock \/ PollUnlock \/ SelectTick

\* Every goroutine keeps running and external commands return.  Store.mu is
\* asked for by the requests only, so it stays free once they are through
\* with it; Collector.mu is taken again by every poll, and a reader gets it
\* because sync.RWMutex does not starve readers.
FairLocks ==
    /\ \A g \in Requests : WF_vars(HandlerStep(g))
    /\ \A g \in Requests : SF_vars(StatsRLock(g))
    /\ WF_vars(LoopStep)

SpecLocks == InitLocks /\ [][NextLocks]_vars /\ FairLocks

\* ------------------------------------------------------------------------
\* Properties
\* ------------------------------------------------------------------------

\* The Store.Write in progress has got past fn, and fn returned an error.
MutationFailed == Len(log) >= 1 /\ log[1] = "fnErr"

\* Goroutine t stands right after the fn of handler op returned nil.
JustMutated(t) == pc[t] = "saveTmp"

\* C1: when the mutation function returns an error, the in-memory AppConfig
\* after Write is the AppConfig before the call.
C1_FailedMutationLeavesConfig ==
    \A t \in Threads :
        (pc[t] = "ret" /\ MutationFailed) => config = snap.cfg

\* C2: when the mutation function returns an error, the state file is not
\* written, the runtime config is neither rendered nor written, no reload is
\* requested, and both files (and their temporaries) are as they were before
\* the call: Write goes straight to its return.
C2_FailedMutationSkipsPipeline ==
    MutationFailed =>
        /\ log = <<"fnErr">>
        /\ yamlFile = snap.yaml
        /\ wgFile = snap.wg
        /\ yamlTmp = snap.yamlTmp
        /\ wgTmp = snap.wgTmp
        /\ writer # NoThread
        /\ pc[writer] = "ret"

\* A Write whose mutation function answered "peer not found" is about to return.
C2_Witness ==
    \E t \in Threads :
        pc[t] = "ret" /\ log = <<"fnErr">> /\ res[t] = "peer not found"

\* peer p of peers routes through nothing, or through an existing, enabled
\* exit node.
ExitRefResolves(peers, p) ==
    \/ p.ExitNodeID = NoID
    \/ \E j \in 1..Len(peers) :
          /\ peers[j].ID = p.ExitNodeID
          /\ peers[j].Enabled
          /\ peers[j].IsExitNode

\* C3: after every successful CreatePeer, UpdatePeer, DeletePeer or TogglePeer,
\* every peer with a non-empty ExitNodeID references a peer that exists, is
\* enabled and has IsExitNode set.
C3_ExitNodeRefsResolve ==
    \A t \in Threads :
        JustMutated(t) =>
            \A i \in 1..Len(config.Peers) :
                ExitRefResolves(config.Peers, config.Peers[i])

\* C4: after a successful operation that disables an exit-node peer or deletes
\* it, no remaining peer has ExitNodeID equal to that peer's ID.
C4_DisabledExitNodeUnreferenced ==
    \A t \in Threads :
        JustMutated(t) =>
            \A i \in 1..Len(snap.cfg.Peers) :
                LET old == snap.cfg.Peers[i]
                    k   == FindPeerByID(config.Peers, old.ID)
                    gone     == k = 0
                    disabled == k # 0 /\ old.Enabled /\ ~config.Peers[k].Enabled
                IN  (old.IsExitNode /\ (gone \/ disabled)) =>
                        \A j \in 1..Len(config.Peers) :
                            config.Peers[j].ExitNodeID # old.ID

\* C5: after a successful operation no two enabled peers have the same
\* AllowedIPs.
C5_EnabledAllowedIPsUnique ==
    \A t \in Threads :
        JustMutated(t) =>
            \A i, j \in 1..Len(config.Peers) :
                (i # j /\ config.Peers[i].Enabled /\ config.Peers[j].Enabled) =>
                    config.Peers[i].AllowedIPs # config.Peers[j].AllowedIPs

\* C6: no peer has both IsExitNode set and a non-empty ExitNodeID.
C6_ExitNodeHasNoExitNode ==
    \A i \in 1..Len(config.Peers) :
        ~(config.Peers[i].IsExitNode /\ config.Peers[i].ExitNodeID # NoID)

\* An UpdatePeer has just turned a peer that routed through an exit node into
\* an exit node itself.
C6_Witness ==
    \E t \in Threads :
        /\ JustMutated(t)
        /\ log[1] = "UpdatePeer"
        /\ \E i \in 1..Len(snap.cfg.Peers) :
              LET old == snap.cfg.Peers[i]
                  k   == FindPeerByID(config.Peers, old.ID)
              IN  /\ old.ExitNodeID # NoID
                  /\ k # 0
                  /\ config.Peers[k].IsExitNode

\* C7: a peer's RoutingTableID is non-zero exactly when its IsExitNode is set,
\* whatever its Enabled flag (so an UpdatePeer that clears IsExitNode leaves
\* RoutingTableID 0), and TogglePeer changes no peer's RoutingTableID.
C7_RoutingTableIDIffExitNode ==
    /\ \A i \in 1..Len(config.Peers) :
          (config.Peers[i].RoutingTableID # 0) <=> config.Peers[i].IsExitNode
    /\ (Len(log) >= 1 /\ log[1] = "TogglePeer") =>
          /\ Len(config.Peers) = Len(snap.cfg.Peers)
          /\ \A i \in 1..Len(config.Peers) :
                config.Peers[i].RoutingTableID = snap.cfg.Peers[i].RoutingTableID

\* An UpdatePeer has just cleared IsExitNode on an exit node and disabled it.
C7_Witness ==
    \E t \in Threads :
        /\ JustMutated(t)
        /\ log[1] = "UpdatePeer"
        /\ \E i \in 1..Len(snap.cfg.Peers) :
              LET old == snap.cfg.Peers[i]
                  k   == FindPeerByID(config.Peers, old.ID)
              IN  /\ old.IsExitNode
                  /\ old.RoutingTableID # 0
                  /\ k # 0
                  /\ ~config.Peers[k].IsExitNode
                  /\ ~config.Peers[k].Enabled
                  /\ config.Peers[k].RoutingTableID = 0

\* C8: once a peer has a RoutingTableID, every later step leaves it unchanged
\* for as long as the peer exists with IsExitNode set.
C8_RoutingTableIDStable ==
    [][ \A i \in 1..Len(config.Peers) :
          LET p == config.Peers[i]
              k == FindPeerByID(config'.Peers, p.ID)
          IN  (p.IsExitNode /\ p.RoutingTableID # 0 /\ k # 0
                  /\ config'.Peers[k].IsExitNode) =>
                  config'.Peers[k].RoutingTableID = p.RoutingTableID ]_vars

\* An UpdatePeer has just changed an exit node that stays an exit node, and its
\* RoutingTableID is the one it had.
C8_Witness ==
    \E t \in Threads :
        /\ JustMutated(t)
        /\ log[1] = "UpdatePeer"
        /\ \E i \in 1..Len(snap.cfg.Peers) :
              LET old == snap.cfg.Peers[i]
                  k   == FindPeerByID(config.Peers, old.ID)
              IN  /\ old.IsExitNode
                  /\ old.RoutingTableID # 0
                  /\ k # 0
                  /\ config.Peers[k].IsExitNode
                  /\ config.Peers[k] # old
                  /\ config.Peers[k].RoutingTableID = old.RoutingTableID

\* C9: in every interleaving of the requests no two peers hold the same
\* non-zero RoutingTableID; the ID of a disabled exit node is not handed to
\* another peer.
C9_RoutingTableIDsDistinct ==
    \A i, j \in 1..Len(config.Peers) :
        (i # j /\ config.Peers[i].RoutingTableID # 0) =>
            config.Peers[i].RoutingTableID # config.Peers[j].RoutingTableID

\* An exit node was made while an older exit node was disabled.
C9_Witness ==
    \E i, j \in 1..Len(config.Peers) :
        /\ i < j
        /\ config.Peers[i].RoutingTableID # 0
        /\ ~config.Peers[i].Enabled
        /\ config.Peers[j].RoutingTableID # 0

\* C10: a Write whose mutation succeeded persists the state file, then renders
\* and writes the runtime config, then requests the reload, all while holding
\* the lock; a failed reload still makes Write return success, with both files
\* holding the new content.
C10_WritePipelineOrder ==
    /\ log # <<>> => (writer # NoThread /\ pc[writer] \notin {"start", "done"})
    /\ \A t \in Threads :
          (pc[t] = "ret" /\ res[t] = "ok") =>
              /\ writer = t
              /\ Len(log) = 4
              /\ log[1] # "fnErr"
              /\ log[2] = "saveYAML"
              /\ log[3] = "renderWGConfig"
              /\ log[4] \in {"reload", "reloadFailed"}
              /\ yamlFile = [doc |-> MarshalYAML(config)]
              /\ wgFile \in { [text |-> r] : r \in Renders(config) }
    /\ (Len(log) = 4 /\ log[4] = "reloadFailed") =>
          (pc[writer] = "ret" /\ res[writer] = "ok")

\* A Write is about to return success although its reload failed.
C10_Witness ==
    \E t \in Threads :
        pc[t] = "ret" /\ res[t] = "ok" /\ Len(log) = 4 /\ log[4] = "reloadFailed"

\* C11: when persisting the state file fails, Write returns an error and
\* neither renders or writes the runtime config nor requests the reload; when
\* rendering or writing the runtime config fails, Write returns an error and
\* requests no reload.
C11_IOErrorEndsPipeline ==
    \A t \in Threads :
        /\ res[t] = "saving config" =>
              /\ pc[t] = "ret"
              /\ Len(log) = 1
              /\ wgFile = snap.wg
              /\ wgTmp = snap.wgTmp
        /\ res[t] = "rendering wg config" =>
              /\ pc[t] = "ret"
              /\ log = <<log[1], "saveYAML">>

\* A Write is about to return the error of its render step, the state file
\* already replaced.
C11_Witness ==
    \E t \in Threads :
        /\ pc[t] = "ret"
        /\ res[t] = "rendering wg config"
        /\ yamlFile # snap.yaml

\* Goroutine t is between the mutation function and the reload of its
\* Store.Write.
InWritePipeline(t) ==
    pc[t] \in {"fn", "saveTmp", "saveRename", "renderTmp", "renderRename", "reload"}

\* Goroutine r executes the callback of its Store.Read.
InReadCallback(r) == pc[r] \in {"cb", "cbRet", "aliasRet"}

\* C12: with concurrent requests at most one Store.Write pipeline (mutation,
\* persist, render, reload) executes at any time, and no Store.Read callback
\* executes while one does.
C12_WriteExcludesAll ==
    /\ Cardinality({ t \in Threads : InWritePipeline(t) }) <= 1
    /\ (\E t \in Threads : InWritePipeline(t)) =>
          \A r \in Readers : ~InReadCallback(r)

\* Two Store.Read callbacks run at once, between two Store.Write calls.
C12_Witness ==
    /\ \A r \in Readers : InReadCallback(r)
    /\ \E t, u \in Threads : pc[t] = "done" /\ pc[u] = "start"

\* Goroutine t reads Store.config at its next step.
ReadsConfig(t) == pc[t] \in {"cb", "range", "rwOpen", "saveTmp", "renderTmp"}

\* C13: every access of a handler to the store's AppConfig happens under the
\* store lock, so no handler reads the peer list while a Write is mutating it.
C13_NoReadDuringMutation ==
    \A r \in DOMAIN pc :
        ReadsConfig(r) =>
            /\ (writer = r \/ r \in readers)
            /\ \A t \in Threads \ {r} : pc[t] # "fn"

\* C14: at every point of every execution, a crash and any interleaving of
\* Store.Write and Store.RenderWGConfig calls included, the state file and the
\* runtime config each hold a complete content, never a partially written one.
C14_FilesNeverPartial ==
    /\ yamlFile # Partial
    /\ wgFile # Partial

\* C15: CreatePeer requests that leave the tunnel address empty are serialized
\* by the store: the address auto-assigned to a new peer is the address of no
\* peer already in the list, so two such requests running concurrently never
\* get the same address.
C15_AutoAssignedAddressFresh ==
    \A t \in Threads :
        (JustMutated(t) /\ log[1] = "CreatePeer") =>
            LET new == config.Peers[Len(config.Peers)]
            IN  new.ID \in autoIP =>
                    \A i \in 1..Len(snap.cfg.Peers) :
                        snap.cfg.Peers[i].AllowedIPs # new.AllowedIPs

\* Both requests were CreatePeer with an empty address; the second has just
\* been given its address.
C15_Witness ==
    \E t \in Threads :
        /\ JustMutated(t)
        /\ log[1] = "CreatePeer"
        /\ \A u \in Threads \ {t} : pc[u] = "done"
        /\ Cardinality(autoIP) = 2
        /\ \A i \in 1..Len(config.Peers) : config.Peers[i].ID \in autoIP

\* The deactivation form of an activation command: add becomes del.
AsDel(cmd) == [cmd EXCEPT ![2] = "del"]

\* C16: in every generation the deactivation list is the activation list
\* reversed, each add turned into the matching del: the i-th deactivation
\* command undoes the (n+1-i)-th activation command.
C16_DownIsReversedUp ==
    \A k \in 1..Len(cmdRuns) :
        LET up   == cmdRuns[k].up
            down == cmdRuns[k].down
        IN  /\ Len(down) = Len(up)
            /\ \A i \in 1..Len(up) : down[i] = AsDel(up[Len(up) + 1 - i])

\* How often cmd occurs in the list.
Occurrences(cmds, cmd) == Cardinality({ j \in 1..Len(cmds) : cmds[j] = cmd })

\* C17: in every generation the deactivation list holds exactly one del for
\* each add of the activation list, with the same address and table, and
\* nothing else.
C17_DownUndoesEveryAdd ==
    \A k \in 1..Len(cmdRuns) :
        LET up   == cmdRuns[k].up
            down == cmdRuns[k].down
        IN  /\ Len(down) = Len(up)
            /\ \A i \in 1..Len(up) :
                  Occurrences(down, AsDel(up[i])) = Occurrences(up, up[i])

\* C18: two generations from the same state give the same activation list,
\* the same deactivation list and the same rendered text.
C18_GenerationDeterministic ==
    \A i, j \in 1..Len(cmdRuns) : cmdRuns[i] = cmdRuns[j]

\* The enabled exit-node peers with a table; with needAddr only those that
\* also have a tunnel address.
ExitIdx(cfg, needAddr) ==
    { j \in 1..Len(cfg.Peers) :
        /\ cfg.Peers[j].Enabled
        /\ cfg.Peers[j].IsExitNode
        /\ cfg.Peers[j].RoutingTableID > 0
        /\ needAddr => FirstIP(cfg.Peers[j].AllowedIPs) # NoIP }

\* The enabled peers that reference an enabled exit-node peer with a table;
\* with needAddr only those that have a tunnel address themselves.
RuleIdx(cfg, needAddr) ==
    { i \in 1..Len(cfg.Peers) :
        /\ cfg.Peers[i].Enabled
        /\ cfg.Peers[i].ExitNodeID # NoID
        /\ \E j \in ExitIdx(cfg, FALSE) : cfg.Peers[j].ID = cfg.Peers[i].ExitNodeID
        /\ needAddr => FirstIP(cfg.Peers[i].AllowedIPs) # NoIP }

\* The rule commands the statement asks for, in peer-list order.
ExpectedRules(cfg, needAddr) ==
    LET idx == SeqFilter([i \in 1..Len(cfg.Peers) |-> i], RuleIdx(cfg, needAddr))
        tableOf(i) == LET j == CHOOSE j \in ExitIdx(cfg, FALSE) :
                                   cfg.Peers[j].ID = cfg.Peers[i].ExitNodeID
                      IN  cfg.Peers[j].RoutingTableID
    IN  [k \in 1..Len(idx) |->
            <<"ip rule", "add", "from", FirstIP(cfg.Peers[idx[k]].AllowedIPs),
              "table", tableOf(idx[k])>>]

\* up is: one default route per distinct table of the exit nodes, each via
\* the address of an exit node holding that table, and after all of them the
\* expected rules.
ActivationShape(cfg, up, needAddr) ==
    LET exits  == ExitIdx(cfg, needAddr)
        tables == { cfg.Peers[j].RoutingTableID : j \in exits }
        n      == Cardinality(tables)
    IN  /\ Len(up) = n + Len(ExpectedRules(cfg, needAddr))
        /\ \A i \in 1..n :
              \E j \in exits :
                  up[i] = <<"ip route", "add", "default via",
                            FirstIP(cfg.Peers[j].AllowedIPs),
                            "dev wg0 table", cfg.Peers[j].RoutingTableID>>
        /\ { up[i][6] : i \in 1..n } = tables
        /\ SubSeq(up, n + 1, Len(up)) = ExpectedRules(cfg, needAddr)

DisabledAddresses(cfg) ==
    { FirstIP(cfg.Peers[i].AllowedIPs) : i \in { i \in 1..Len(cfg.Peers) : ~cfg.Peers[i].Enabled } }

\* The addresses of the peers that must get no policy rule: those whose
\* ExitNodeID is empty or names a peer that is missing, disabled or not
\* flagged as exit node.
UnroutedAddresses(cfg) ==
    { FirstIP(cfg.Peers[i].AllowedIPs) :
        i \in { i \in 1..Len(cfg.Peers) :
                  ~ \E j \in 1..Len(cfg.Peers) :
                        /\ cfg.Peers[j].ID = cfg.Peers[i].ExitNodeID
                        /\ cfg.Peers[j].Enabled
                        /\ cfg.Peers[j].IsExitNode } }

\* No command of the list is about a disabled peer and no rule is for a peer
\* without a usable exit node.
ExcludesUnusable(cfg, cmds) ==
    \A i \in 1..Len(cmds) :
        /\ cmds[i][4] \notin DisabledAddresses(cfg)
        /\ cmds[i][1] = "ip rule" => cmds[i][4] \notin UnroutedAddresses(cfg)

\* C20: no generated command, activation or deactivation, mentions a disabled
\* peer, and no policy rule is generated for a peer whose ExitNodeID refers to
\* a missing, disabled or unflagged peer; both lists are produced for every
\* such peer set.
C20_UnusablePeersExcluded ==
    \A k \in 1..Len(cmdRuns) :
        /\ ExcludesUnusable(config, cmdRuns[k].up)
        /\ ExcludesUnusable(config, cmdRuns[k].down)

\* C20's case: commands, a route among them, were generated from a peer set
\* with a disabled exit-node candidate, a disabled peer that references a live
\* exit node and an enabled peer that references a missing peer.
C20_Witness ==
    /\ Len(cmdRuns) = MaxRuns
    /\ \E i, j, e \in 1..Len(config.Peers) :
          /\ e \in ExitIdx(config, TRUE)
          /\ ~config.Peers[i].Enabled
          /\ config.Peers[i].ExitNodeID = config.Peers[e].ID
          /\ config.Peers[j].Enabled
          /\ config.Peers[j].ExitNodeID = UnknownID
    /\ \E c \in Range(cmdRuns[1].up) : c[1] = "ip route"
    /\ ~ config.Peers[1].Enabled

\* The position of a hook line in the order user PreUp, user PostUp,
\* generated PostUp, generated PostDown, user PostDown, user PreDown; 0 for
\* any other line. A user hook's value is one text, a generated command is a
\* tuple of six words.
HookRank(line) ==
    CASE line[1] = "PreUp"    -> 1
      [] line[1] = "PostUp"   -> IF Len(line[2]) = 1 THEN 2 ELSE 3
      [] line[1] = "PostDown" -> IF Len(line[2]) = 1 THEN 5 ELSE 4
      [] line[1] = "PreDown"  -> 6
      [] OTHER                -> 0

\* The hook lines of a rendered text, in the order of the text.
HookLines(text) == SeqFilter(text, { l \in Range(text) : HookRank(l) > 0 })

\* The line of a user hook, or nothing when the hook is empty.
UserHook(key, val) == IF val = "" THEN <<>> ELSE << <<key, <<val>> >> >>

\* C21: the hook lines of every rendered text are, in this order: the user's
\* PreUp, the user's PostUp, the generated activation commands as PostUp
\* lines, the generated deactivation commands as PostDown lines, the user's
\* PostDown, the user's PreDown; an empty user hook has no line.
C21_HookOrder ==
    \A k \in 1..Len(cmdRuns) :
        LET run == cmdRuns[k]
            hl  == HookLines(run.text)
        IN  /\ hl = UserHook("PreUp", config.Server.PreUp)
                    \o UserHook("PostUp", config.Server.PostUp)
                    \o [i \in 1..Len(run.up) |-> <<"PostUp", run.up[i]>>]
                    \o [i \in 1..Len(run.down) |-> <<"PostDown", run.down[i]>>]
                    \o UserHook("PostDown", config.Server.PostDown)
                    \o UserHook("PreDown", config.Server.PreDown)
            /\ \A i, j \in 1..Len(hl) : i < j => HookRank(hl[i]) <= HookRank(hl[j])

\* C21's case: a rendering with generated commands, an empty user PostUp and
\* the three other user hooks set.
C21_Witness ==
    /\ Len(cmdRuns) >= 1
    /\ Len(cmdRuns[1].up) >= 2
    /\ config.Server.PostUp = ""
    /\ config.Server.PreUp # ""
    /\ config.Server.PostDown # ""
    /\ config.Server.PreDown # ""

\* The runtime config file holds the rendering of the current Write.
JustRendered == Len(log) >= 3 /\ log[3] = "renderWGConfig"

\* The positions of the [Peer] headers in a rendered text, ascending.
SectionStarts(text) ==
    SeqFilter([i \in 1..Len(text) |-> i], { i \in 1..Len(text) : text[i][1] = "[Peer]" })

\* The positions of the enabled peers in the peer list, ascending.
EnabledIdx(peers) ==
    SeqFilter([i \in 1..Len(peers) |-> i], { i \in 1..Len(peers) : peers[i].Enabled })

\* The text has one section per enabled peer, in peer-list order, each with
\* the route-everything override exactly for an exit node.
SectionsMatch(cfg, text) ==
    LET starts == SectionStarts(text)
        en     == EnabledIdx(cfg.Peers)
    IN  /\ Len(starts) = Len(en)
        /\ \A k \in 1..Len(en) :
              LET p == cfg.Peers[en[k]]
                  a == text[starts[k] + 2]
              IN  /\ text[starts[k] + 1] = <<"PublicKey", p.PublicKey>>
                  /\ a[1] = "AllowedIPs"
                  /\ p.IsExitNode => a[2] = RouteEverything
                  /\ ~p.IsExitNode => (a[2] = p.AllowedIPs /\ a[2] # RouteEverything)

\* The peers whose exit-node flag the current Write cleared, as they were
\* when the lock was taken.
Unflagged ==
    { e \in Range(snap.cfg.Peers) :
        /\ e.IsExitNode
        /\ \E i \in 1..Len(config.Peers) :
              config.Peers[i].ID = e.ID /\ ~config.Peers[i].IsExitNode }

\* The generated commands of a rendered text.
GeneratedCmds(text) == { l[2] : l \in { l \in Range(text) : HookRank(l) \in {3, 4} } }

\* C22: the runtime config written by a Write has one peer section per
\* enabled peer, in peer-list order, none for a disabled peer, with AllowedIPs
\* "0.0.0.0/0, ::/0" exactly for exit nodes and the stored address otherwise;
\* after an UpdatePeer that cleared a peer's exit-node flag it has no route
\* and no rule for the table the peer held.
C22_PeerSectionsAndUnflag ==
    JustRendered =>
        /\ SectionsMatch(config, wgFile.text)
        /\ log[1] = "UpdatePeer" =>
              \A e \in Unflagged : \A c \in GeneratedCmds(wgFile.text) :
                  c[6] # e.RoutingTableID

\* C22's case: an UpdatePeer cleared the flag of an exit node that held a
\* table and was referenced by another peer; the rendering written afterwards
\* has a section for it and for a second enabled peer.
C22_Witness ==
    /\ JustRendered
    /\ log[1] = "UpdatePeer"
    /\ \E e \in Unflagged :
          /\ e.RoutingTableID > 0
          /\ \E a \in Range(snap.cfg.Peers) : a.ExitNodeID = e.ID
          /\ \E i \in 1..Len(config.Peers) : config.Peers[i].ID = e.ID /\ config.Peers[i].Enabled
    /\ Len(SectionStarts(wgFile.text)) >= 2

\* The tables held by the peers of a list.
HeldTables(peers) == { peers[i].RoutingTableID : i \in 1..Len(peers) }

\* id is the smallest integer from 100 upwards that no peer of the list holds.
SmallestFree(id, peers) ==
    /\ id >= 100
    /\ id \notin HeldTables(peers)
    /\ \A n \in 100..(id - 1) : n \in HeldTables(peers)

\* C23: AssignRoutingTableID returns the smallest integer >= 100 that no peer
\* of the list holds; when the call before released an ID and that ID is the
\* smallest free one, it is the ID returned.
C23_SmallestFreeTable ==
    call.op = "AssignRoutingTableID" =>
        /\ SmallestFree(call.result, call.peers)
        /\ SmallestFree(call.released, call.peers) => call.result = call.released

\* C23's case: an ID released by the step before is handed out again while a
\* peer of the list holds a larger ID and another a table below 100.
C23_Witness ==
    /\ call.op = "AssignRoutingTableID"
    /\ call.released = call.result
    /\ \E n \in HeldTables(call.peers) : n > call.result
    /\ \E n \in HeldTables(call.peers) : n > 0 /\ n < 100

\* The subnet of a server address of prefix length 24 or more: its addresses
\* share the first three bytes and their last byte lies in Low..High.
SubnetLow(sv) == sv.ip[4] - (sv.ip[4] % Pow2(32 - sv.bits))

SubnetHigh(sv) == SubnetLow(sv) + Pow2(32 - sv.bits) - 1

SubnetAddresses(sv) == { [sv.ip EXCEPT ![4] = d] : d \in SubnetLow(sv)..SubnetHigh(sv) }

\* The network address, the broadcast address and the server's own address.
ReservedAddresses(sv) ==
    { [sv.ip EXCEPT ![4] = SubnetLow(sv)], [sv.ip EXCEPT ![4] = SubnetHigh(sv)], sv.ip }

\* Every address that occurs in the used list, in a single CIDR or in a
\* comma-separated list.
ListedAddresses(usedIPs) ==
    UNION { { usedIPs[i][k].ip : k \in 1..Len(usedIPs[i]) } : i \in 1..Len(usedIPs) }

\* NextAvailableIP was called and returned an address.
Returned == call.op = "NextAvailableIP" /\ call.result.err = ""

\* C24: an address returned by NextAvailableIP is not the subnet's network
\* address, not its broadcast address, not the server's own address and not
\* an address that occurs in the used list.
C24_NeverReservedOrUsed ==
    Returned =>
        LET a == call.result.ip[1].ip
        IN  /\ a \notin ReservedAddresses(call.serverAddress[1])
            /\ a \notin ListedAddresses(call.usedIPs)

\* C25: an address returned by NextAvailableIP is a /32 prefix of the
\* numerically smallest address of the subnet that is neither reserved nor
\* used; 10.0.0.1/24 gives 10.0.0.2/32 with no peers and 10.0.0.3/32 with
\* 10.0.0.2/32 used.
C25_SmallestFreeAsHost ==
    Returned =>
        LET sv    == call.serverAddress[1]
            a     == call.result.ip[1].ip
            taken == ReservedAddresses(sv) \cup ListedAddresses(call.usedIPs)
        IN  /\ Len(call.result.ip) = 1
            /\ call.result.ip[1].bits = 32
            /\ a \in SubnetAddresses(sv) \ taken
            /\ \A b \in SubnetAddresses(sv) : b[4] < a[4] => b \in taken
            /\ (sv = [ip |-> <<10, 0, 0, 1>>, bits |-> 24] /\ call.usedIPs = <<>>)
                  => call.result.ip = << Host32(10, 0, 0, 2) >>
            /\ (sv = [ip |-> <<10, 0, 0, 1>>, bits |-> 24]
                /\ call.usedIPs = << << Host32(10, 0, 0, 2) >> >>)
                  => call.result.ip = << Host32(10, 0, 0, 3) >>

\* C26: when every address of the subnet is reserved or used, NextAvailableIP
\* returns the exhaustion error.
C26_FullSubnetExhausts ==
    (/\ call.op = "NextAvailableIP"
     /\ SubnetAddresses(call.serverAddress[1])
            \subseteq (ReservedAddresses(call.serverAddress[1])
                       \cup ListedAddresses(call.usedIPs)))
    => call.result.err = "exhausted"

\* The rates of a list of history points.
PointRates(h) == { h[i].RxPS : i \in 1..Len(h) } \cup { h[i].TxPS : i \in 1..Len(h) }

\* Every per-peer rate the collector holds, current or in a history.
PeerRates(c) ==
    UNION { {c.peers[k].CurrentRxPS, c.peers[k].CurrentTxPS} : k \in DOMAIN c.peers }
    \cup UNION { PointRates(c.peerHistory[k]) : k \in DOMAIN c.peerHistory }

\* Every aggregate rate the collector holds, current or in the history.
AggregateRates(c) == {c.iface.CurrentRxPS, c.iface.CurrentTxPS} \cup PointRates(c.history)

\* The point the last successful sample appended to a history.
LastPoint(h) == h[Len(h)]

\* The last sample succeeded; where it read a counter lower than the one
\* before, the rate it recorded for that counter is 0, in the current stats
\* and in the history point.
ZeroOnDecrease ==
    (call.op = "poll" /\ call.ok) =>
        /\ \A k \in DOMAIN call.dump \cap DOMAIN call.before.prevPeerRx :
              /\ call.dump[k].rx < call.before.prevPeerRx[k] =>
                    /\ collector.peers[k].CurrentRxPS = 0
                    /\ LastPoint(collector.peerHistory[k]).RxPS = 0
              /\ call.dump[k].tx < call.before.prevPeerTx[k] =>
                    /\ collector.peers[k].CurrentTxPS = 0
                    /\ LastPoint(collector.peerHistory[k]).TxPS = 0
        /\ collector.iface.TotalRx < call.before.prevRx =>
              /\ collector.iface.CurrentRxPS = 0
              /\ LastPoint(collector.history).RxPS = 0
        /\ collector.iface.TotalTx < call.before.prevTx =>
              /\ collector.iface.CurrentTxPS = 0
              /\ LastPoint(collector.history).TxPS = 0

\* What holds of the rates whatever the counters: every per-peer rate, current
\* or in a history point, is >= 0; every aggregate rate is >= 0 as long as no
\* sample's counter sum has passed the largest int64; and a counter lower
\* than the previous one gives a rate of 0 for that sample.
RatesNonNegativeInRange ==
    /\ \A r \in PeerRates(collector) : r >= 0
    /\ ~call.wrapped => \A r \in AggregateRates(collector) : r >= 0
    /\ ZeroOnDecrease

\* C27: after every sequence of successful and failed samples with arbitrary
\* counter values, every per-peer and aggregate rate in the current stats and
\* in every history point is >= 0, and a counter lower than the previous one
\* gives a rate of 0 for that sample.
C27_RatesNonNegative ==
    /\ \A r \in PeerRates(collector) \cup AggregateRates(collector) : r >= 0
    /\ ZeroOnDecrease

\* After a sample with a positive rate, a sample reads a lower rx counter for
\* a peer and a lower sum, all sums being in range.
CounterDecreased ==
    /\ call.op = "poll"
    /\ call.ok
    /\ ~call.wrapped
    /\ \E r \in PointRates(collector.history) : r > 0
    /\ \E k \in DOMAIN call.dump \cap DOMAIN call.before.prevPeerRx :
          call.dump[k].rx < call.before.prevPeerRx[k]
    /\ collector.iface.TotalRx < call.before.prevRx
    /\ call.before.prevTime < collector.prevTime

\* h holds the points of `after` that are the tail of `before` followed by one
\* new point; when `before` was full its oldest point, and only that, is gone.
AppendedFIFO(before, after) ==
    /\ Len(after) = (IF Len(before) < 60 THEN Len(before) + 1 ELSE 60)
    /\ LET drop == Len(before) + 1 - Len(after)
       IN  /\ drop \in {0, 1}
           /\ \A i \in 1..(Len(after) - 1) : after[i] = before[i + drop]
    /\ \A i \in 1..(Len(after) - 1) : after[i].Time < after[Len(after)].Time

\* C28: the aggregate history and every per-peer history hold at most 60
\* points; a successful sample appends its point at the end of each, and once
\* a buffer holds 60 points the append removes exactly the oldest one, so the
\* buffer holds the most recent points in arrival order.
C28_HistoryBoundedFIFO ==
    /\ Len(collector.history) <= 60
    /\ \A k \in DOMAIN collector.peerHistory : Len(collector.peerHistory[k]) <= 60
    /\ (call.op = "poll" /\ call.ok) =>
          /\ AppendedFIFO(call.before.history, collector.history)
          /\ \A k \in DOMAIN collector.peerHistory :
                AppendedFIFO(IF k \in DOMAIN call.before.peerHistory
                             THEN call.before.peerHistory[k] ELSE <<>>,
                             collector.peerHistory[k])

\* C28's case: a sample arrived when the aggregate buffer and a per-peer
\* buffer already held 60 points.
C28_Witness ==
    /\ call.op = "poll"
    /\ call.ok
    /\ Len(call.before.history) = 60
    /\ \E k \in DOMAIN call.before.peerHistory : Len(call.before.peerHistory[k]) = 60
    /\ Len(collector.history) = 60
    /\ collector.history[1].Time > 1

\* C29: a failed sample sets the collector to Down and leaves the aggregate
\* stats, the per-peer stats, both kinds of history and the previous-counter
\* maps as they were; IsUp is true exactly when the most recent completed
\* sample succeeded.
C29_FailedSampleOnlyDown ==
    /\ call.op = "start" => ~collector.isUp
    /\ call.op = "poll" => (collector.isUp <=> call.ok)
    /\ (call.op = "poll" /\ ~call.ok) =>
          /\ collector.iface = call.before.iface
          /\ collector.peers = call.before.peers
          /\ collector.history = call.before.history
          /\ collector.peerHistory = call.before.peerHistory
          /\ collector.prevRx = call.before.prevRx
          /\ collector.prevTx = call.before.prevTx
          /\ collector.prevPeerRx = call.before.prevPeerRx
          /\ collector.prevPeerTx = call.before.prevPeerTx
          /\ collector.prevTime = call.before.prevTime

\* C29's case: a sample failed while the collector was Up and held stats and
\* history of two peers.
C29_Witness ==
    /\ call.op = "poll"
    /\ ~call.ok
    /\ call.before.isUp
    /\ ~collector.isUp
    /\ DOMAIN collector.peers = StatKeys
    /\ Len(collector.history) >= 2

\* C30: after a successful sample the per-peer stats and the per-peer
\* histories are kept for exactly the public keys of that sample; a peer that
\* is back after an absence has a history of one point.
C30_OnlySampledPeersKept ==
    (call.op = "poll" /\ call.ok) =>
        /\ DOMAIN collector.peers = DOMAIN call.dump
        /\ DOMAIN collector.peerHistory = DOMAIN call.dump
        /\ \A k \in DOMAIN call.dump :
              k \notin DOMAIN call.before.peers => Len(collector.peerHistory[k]) = 1
        /\ \A k \in call.returned : Len(collector.peerHistory[k]) = 1

\* C30's case: a peer seen in an earlier sample and absent from the last one
\* is in the dump again, next to a peer that was present all along.
C30_Witness ==
    /\ call.op = "poll"
    /\ call.ok
    /\ call.returned # {}
    /\ \E k \in DOMAIN collector.peerHistory : Len(collector.peerHistory[k]) = 3

\* after is before with exactly one point appended (the oldest one evicted
\* if the buffer was full), and that point carries the given time and rates.
OnePointAppended(before, after, time, rx, tx) ==
    /\ Len(after) >= 1
    /\ after[Len(after)] = [Time |-> time, RxPS |-> rx, TxPS |-> tx]
    /\ Len(after) = (IF Len(before) < HistorySize THEN Len(before) + 1 ELSE HistorySize)
    /\ \A i \in 1..(Len(after) - 1) : after[i] = before[i + (Len(before) + 1 - Len(after))]

\* The history the collector held for key k, empty if it held none.
HistoryBefore(k) ==
    IF k \in DOMAIN call.before.peerHistory THEN call.before.peerHistory[k] ELSE <<>>

\* C31: every successful sample appends exactly one point to the aggregate
\* history and exactly one point to the history of each peer present in the
\* sample; a failed sample appends none.
C31_OnePointPerSample ==
    /\ (call.op = "poll" /\ call.ok) =>
          /\ OnePointAppended(call.before.history, collector.history, collector.prevTime,
                              collector.iface.CurrentRxPS, collector.iface.CurrentTxPS)
          /\ \A k \in DOMAIN call.dump :
                /\ k \in DOMAIN collector.peerHistory
                /\ OnePointAppended(HistoryBefore(k), collector.peerHistory[k],
                                    collector.prevTime,
                                    collector.peers[k].CurrentRxPS,
                                    collector.peers[k].CurrentTxPS)
    /\ (call.op = "poll" /\ ~call.ok) =>
          /\ collector.history = call.before.history
          /\ collector.peerHistory = call.before.peerHistory

\* C31's case: a successful sample with both peers, one of them already
\* with a history and the other new, after two earlier successful samples.
C31_Witness ==
    /\ call.op = "poll"
    /\ call.ok
    /\ DOMAIN call.dump = StatKeys
    /\ DOMAIN call.before.peerHistory = { <<"pub", 1>> }
    /\ Len(call.before.peerHistory[<<"pub", 1>>]) = 2
    /\ Len(collector.peerHistory[<<"pub", 1>>]) = 3
    /\ Len(collector.peerHistory[<<"pub", 2>>]) = 1
    /\ Len(collector.history) = 3

\* Once stopCh is closed the polling loop returns.
StopEndsLoop == (loop.stopCh = "closed") ~> (loop.pc = "done")

\* No sample that was running when Stop was called, and none answering a
\* tick pending at that moment, has written to the collector.
StopDiscardsInFlight == call.updated \notin {"inflight", "pending"}

\* C32: after Stop on a started collector the polling loop eventually
\* terminates, and a sample in flight when Stop was called (or a tick
\* pending at that moment) does not update the collector's stats or
\* histories.
C32_StopEndsLoopAndDiscards == StopEndsLoop /\ []StopDiscardsInFlight

\* A sample that was in flight at Stop has changed the collector's stats and
\* histories.
InFlightSampleLanded ==
    /\ call.updated = "inflight"
    /\ loop.stopCh = "closed"
    /\ collector.history # call.atStop.history
    /\ collector.peers # call.atStop.peers

\* The positions in peers whose reference does not resolve.
Unresolved(peers) == { i \in 1..Len(peers) : ~ExitRefResolves(peers, peers[i]) }

\* C33: ValidateExitNodeRefs returns one error for each peer whose non-empty
\* ExitNodeID is not the ID of an enabled peer with IsExitNode set, returns
\* no error exactly when every reference resolves, and leaves the peer list
\* as it was.
C33_ValidateExitNodeRefs ==
    call.op = "ValidateExitNodeRefs" =>
        /\ Len(call.errs) = Cardinality(Unresolved(call.peers))
        /\ \A i \in Unresolved(call.peers) :
              Cardinality({ n \in 1..Len(call.errs) : call.errs[n] = i }) = 1
        /\ (call.errs = <<>>) <=>
              (\A i \in 1..Len(call.peers) : ExitRefResolves(call.peers, call.peers[i]))
        /\ config.Peers = call.peers

\* C33's case: a list of three peers in which one reference resolves, one
\* names a disabled exit node and one names no peer, giving two errors.
C33_Witness ==
    /\ call.op = "ValidateExitNodeRefs"
    /\ Len(call.peers) = 3
    /\ call.peers[1].IsExitNode /\ call.peers[1].Enabled /\ call.peers[1].ExitNodeID = UnknownID
    /\ call.peers[2].IsExitNode /\ ~call.peers[2].Enabled /\ call.peers[2].ExitNodeID = 1
    /\ call.peers[3].ExitNodeID = 2
    /\ call.errs = <<1, 3>>

\* Peer.Validate accepts every peer of doc and ServerConfig.Validate its
\* server.
DocValid(doc) ==
    /\ ServerValidate(doc.server) = <<>>
    /\ \A i \in 1..Len(doc.peers) : PeerValidate(doc.peers[i]) = <<>>

\* C34: every state that Store.Write persists to the state file satisfies
\* Peer.Validate for every peer and ServerConfig.Validate for the server,
\* also when earlier operations failed validation and later ones succeeded.
C34_PersistedStateValid ==
    "doc" \in DOMAIN yamlFile => DocValid(yamlFile.doc)

\* Store.Write of goroutine t is about to return the error of saveYAML: the
\* state file has not been replaced.
SaveFailed(t) == pc[t] = "ret" /\ res[t] = "saving config"

\* C35: if the persistence step of Store.Write fails, the in-memory
\* AppConfig when Write returns equals the AppConfig before Write began (so
\* that memory and the last persisted state agree whenever no Write runs).
C35_FailedSaveRestoresConfig ==
    \A t \in Threads :
        SaveFailed(t) => (yamlFile = snap.yaml /\ config = snap.cfg)

\* In the text of a runtime config, every generated "ip rule add" line comes
\* after a generated "ip route add default" line for the same table.
RulesFollowRoutes(text) ==
    \A i \in 1..Len(text) :
        (HookRank(text[i]) = 3 /\ text[i][2][1] = "ip rule") =>
            \E j \in 1..(i - 1) :
                /\ HookRank(text[j]) = 3
                /\ text[j][2][1] = "ip route"
                /\ text[j][2][2] = "add"
                /\ text[j][2][6] = text[i][2][6]

\* C36: in every activation list produced from a state reachable through
\* the handler operations, each "ip rule add ... table N" is preceded by an
\* "ip route add default ... table N" for the same table.
C36_RuleHasRoute ==
    /\ "text" \in DOMAIN wgTmp => RulesFollowRoutes(wgTmp.text)
    /\ "text" \in DOMAIN wgFile => RulesFollowRoutes(wgFile.text)

\* Goroutine g executes renderWGConfig, entered from Store.Write or from
\* Store.RenderWGConfig.
InRenderWGConfig(g) ==
    pc[g] \in {"renderTmp", "renderRename", "rwOpen", "rwWrite", "rwWriteMoved", "rwRename"}

\* C37: executions of renderWGConfig reached through Store.Write and through
\* Store.RenderWGConfig never overlap: at most one goroutine at a time
\* writes the runtime config's temporary file and renames it.
C37_RenderNeverOverlaps ==
    Cardinality({ g \in Threads \cup Readers : InRenderWGConfig(g) }) <= 1

\* The part of C37 that the write lock gives: a renderWGConfig reached
\* through Store.Write overlaps with no other.
WriteRenderAlone ==
    \A t \in Threads :
        pc[t] \in {"renderTmp", "renderRename"} =>
            \A g \in (Threads \cup Readers) \ {t} : ~InRenderWGConfig(g)

\* Goroutine g holds Store.mu; goroutine g holds Collector.mu.
HoldsStore(g) == writer = g \/ g \in readers

HoldsCollector(g) == g \in loop.rd

\* No handler holds Store.mu twice or together with Collector.mu, the
\* polling loop holds Collector.mu only while inside poll, and a handler
\* that has been served holds nothing.
LocksNeverNested ==
    /\ \A g \in Handlers :
          /\ ~(writer = g /\ g \in readers)
          /\ ~(HoldsStore(g) /\ HoldsCollector(g))
          /\ pc[g] = "served" => (~HoldsStore(g) /\ ~HoldsCollector(g))
    /\ loop.mu = "poll" <=> loop.pc = "locked"
    /\ loop.mu = "poll" => loop.rd = {}
    /\ writer # NoThread => readers = {}

\* Every request is served, and every sample that has begun is completed.
AllComplete ==
    /\ <>(\A g \in Handlers : pc[g] = "served")
    /\ (loop.pc \in {"exec", "lock", "locked"}) ~> (loop.pc = "select")

\* C38: no execution deadlocks: no handler acquires the store lock while it
\* holds it, the polling task never takes the store lock, the store lock and
\* the collector lock are never held together, and every lock is released
\* on every path, so every request and every sample eventually completes.
C38_NoDeadlock == []LocksNeverNested /\ AllComplete

\* C38's case: both locks are held at once by different goroutines: a
\* Store.Write is inside its pipeline, the polling loop holds Collector.mu,
\* and a handler waits to read a peer's history.
C38_Witness ==
    /\ \E t \in Threads : writer = t /\ pc[t] = "renderRename"
    /\ loop.mu = "poll"
    /\ \E g \in Handlers : pc[g] = "history"

\* C39: after every sample, successful or failed, the four per-peer maps of
\* the collector (current stats, previous received counter, previous sent
\* counter, history) have exactly the same set of public keys.
C39_PeerMapsSameKeys ==
    call.op = "poll" =>
        /\ DOMAIN collector.prevPeerRx = DOMAIN collector.peers
        /\ DOMAIN collector.prevPeerTx = DOMAIN collector.peers
        /\ DOMAIN collector.peerHistory = DOMAIN collector.peers

\* C39's case: a failed sample follows one with both peers, which followed
\* one with a single peer.
C39_Witness ==
    /\ call.op = "poll"
    /\ ~call.ok
    /\ call.n = 3
    /\ DOMAIN collector.peers = StatKeys
    /\ \E k \in StatKeys :
          Len(collector.peerHistory[k]) = 1 /\ \E j \in StatKeys : Len(collector.peerHistory[j]) = 2

\* The mutation function of a DeletePeer has just returned nil.
JustDeleted == \E t \in Threads : JustMutated(t) /\ log = <<"DeletePeer">>

\* The positions of the list before the call that hold an ID the list after
\* it holds no more.
DeletedIdx ==
    { i \in 1..Len(snap.cfg.Peers) :
        \A j \in 1..Len(config.Peers) : config.Peers[j].ID # snap.cfg.Peers[i].ID }

\* Peer p as it is to be after the peer at position idx was deleted.
AfterDeletionOf(idx, p) ==
    IF snap.cfg.Peers[idx].IsExitNode /\ p.ExitNodeID = snap.cfg.Peers[idx].ID
    THEN [p EXCEPT !.ExitNodeID = NoID]
    ELSE p

\* C40: a successful DeletePeer removes exactly the peer with the given ID;
\* the other peers keep their relative order and all their fields, except
\* that ExitNodeID is cleared on peers that referenced a deleted exit node.
\* DeletePeer of an unknown ID returns an error and changes nothing.
C40_DeleteRemovesExactlyOne ==
    /\ JustDeleted =>
          /\ Cardinality(DeletedIdx) = 1
          /\ Len(config.Peers) = Len(snap.cfg.Peers) - 1
          /\ \A idx \in DeletedIdx :
                /\ \A i \in 1..(idx - 1) :
                      config.Peers[i] = AfterDeletionOf(idx, snap.cfg.Peers[i])
                /\ \A i \in idx..Len(config.Peers) :
                      config.Peers[i] = AfterDeletionOf(idx, snap.cfg.Peers[i + 1])
          /\ config.Server = snap.cfg.Server
    /\ \A t \in Threads :
          (pc[t] = "ret" /\ res[t] = "peer not found") =>
              /\ config = snap.cfg
              /\ yamlFile = snap.yaml
              /\ wgFile = snap.wg

\* C40's case: the first of three peers, an exit node, is deleted; the
\* second, which was routed through it, has lost its reference and the third
\* has moved up unchanged.
C40_Witness ==
    /\ JustDeleted
    /\ Len(snap.cfg.Peers) = 3
    /\ DeletedIdx = {1}
    /\ snap.cfg.Peers[1].IsExitNode
    /\ snap.cfg.Peers[2].ExitNodeID = snap.cfg.Peers[1].ID
    /\ config.Peers[1].ExitNodeID = NoID
    /\ config.Peers[2] = snap.cfg.Peers[3]

====
